---- MODULE Spec2Model ----
(***************************************************************************)
(* Signal evaluation and trade simulation engine of scripts/backtest.py,   *)
(* with its portfolio post-processors (circuit breaker, single-pool        *)
(* compounding, leverage simulator).                                       *)
(*                                                                         *)
(* Number representation.  Python floats are modelled by exact rational    *)
(* arithmetic over integers (binary rounding error is not modelled):       *)
(*   prices            integer thousandths of a dollar (10000 = $10.00)    *)
(*   position fractions integer ten-thousandths     (10000 = 1.0)          *)
(*   config percentages integer tenths of a percent (25 = 2.5%)            *)
(*   computed percentages rationals [n, d]                                 *)
(*   pnl_pct (rounded to 2 decimals) integer hundredths of a percent       *)
(*   pnl_usd, capital  integer cents                                       *)
(*   dates             integer day numbers (str(date) keeps their order)   *)
(* Indicator snapshots (entry_indicators / exit_indicators) carry no       *)
(* control flow and are left out of the records.                           *)
(***************************************************************************)
EXTENDS Integers, Sequences, FiniteSets, TLC

VARIABLES
    cfg,      \* simulate_trades: the `config` argument of the run
    sim,      \* simulate_trades: every local of the bar loop, and the ledger `trades`
    row,      \* simulate_trades: the bar being processed (`row`), None before the first
    phase,    \* simulate_trades: "loop" while bars remain, "done" after the final flush
    cfgB,     \* second run on the same bars (configuration)
    simB,     \* second run on the same bars (locals and ledger)
    family,   \* which bounded family of bars the input series is drawn from
    hist,     \* history of the run: the best profit of the open position on any
              \* bar since its entry
    cb,       \* apply_circuit_breaker: its arguments, loop position and flags
    pool,     \* simulate_compounding_single_pool: its events and locals
    lev,      \* simulate_leverage_scenario: its events and locals
    ev,       \* evaluate_signal: its arguments other than row and config, and its result
    series    \* simulate_trades called on a whole frame: its index, rows and outcome

simVars == <<cfg, sim, row, phase, cfgB, simB, family, hist, ev>>
vars == <<cfg, sim, row, phase, cfgB, simB, family, hist, cb, pool, lev, ev, series>>

----------------------------------------------------------------------------
(* Arithmetic helpers *)

Abs(x) == IF x < 0 THEN -x ELSE x
Min(a, b) == IF a <= b THEN a ELSE b
Max(a, b) == IF a >= b THEN a ELSE b

RECURSIVE GCD(_, _)
GCD(a, b) == IF b = 0 THEN a ELSE GCD(b, a % b)

\* A rational in lowest terms with a positive denominator.
Rat(n, d) ==
    LET s == IF d < 0 THEN -1 ELSE 1
        g == GCD(Abs(n), Abs(d))
    IN  [n |-> (s * n) \div g, d |-> (s * d) \div g]

RGe(a, b) == a.n * b.d >= b.n * a.d
RGt(a, b) == a.n * b.d > b.n * a.d
RLe(a, b) == RGe(b, a)
RSub(a, b) == Rat(a.n * b.d - b.n * a.d, a.d * b.d)
RAbs(a) == [n |-> Abs(a.n), d |-> a.d]

\* A configuration percentage (tenths of a percent) as a rational percent.
T(x) == Rat(x, 10)

\* Python round(): nearest, ties to even; n / d rounded to an integer (d > 0).
RoundDiv(n, d) ==
    LET q == n \div d
        r == n - q * d
    IN  IF 2 * r < d THEN q
        ELSE IF 2 * r > d THEN q + 1
        ELSE IF q % 2 = 0 THEN q ELSE q + 1

\* round(price, 2): a price in thousandths rounded to whole cents.
Round2(price) == 10 * RoundDiv(price, 10)

\* round(pct, 2): a rational percent as integer hundredths of a percent.
RoundPct(r) == RoundDiv(r.n * 100, r.d)

\* round(frac * 100, 1): a fraction (1/10000) as tenths of a percent.
RoundFracPct(frac) == RoundDiv(frac, 10)

POSITION_SIZE_USD == 1000

\* round(frac * pct / 100 * position_size, 2) in cents, pct a rational percent.
PnlUsd(frac, pct) == RoundDiv(frac * pct.n, (10000 \div POSITION_SIZE_USD) * pct.d)

\* The same for a pct already rounded to hundredths of a percent.
PnlUsdOfRounded(frac, pct100) == PnlUsd(frac, Rat(pct100, 100))

\* float("nan") / pandas NaN: every ordering comparison with it is False.
NaN == -999999
IsNa(x) == x = NaN
NLt(a, b) == ~IsNa(a) /\ ~IsNa(b) /\ a < b
NGt(a, b) == ~IsNa(a) /\ ~IsNa(b) /\ a > b
NGe(a, b) == ~IsNa(a) /\ ~IsNa(b) /\ a >= b
NLe(a, b) == ~IsNa(a) /\ ~IsNa(b) /\ a <= b

\* Python None for an optional dict, and for a missing exit date.
None == [direction |-> "none"]
NoneDate == -1

\* {**base, **over}
Merge(base, over) ==
    [k \in DOMAIN base \cup DOMAIN over |->
        IF k \in DOMAIN over THEN over[k] ELSE base[k]]

\* dict.get(key, default)
Get(d, key, default) == IF key \in DOMAIN d THEN d[key] ELSE default

----------------------------------------------------------------------------
(* Named configurations *)

SIGNAL_CONFIG ==
    [ rsi_long_entry_min |-> 40, rsi_long_entry_max |-> 70,
      rsi_short_entry_min |-> 30, rsi_short_entry_max |-> 60,
      adx_threshold |-> 20, stop_loss_pct |-> 80,
      anti_whipsaw_window |-> 3,
      rsi_yellow_threshold |-> 78, rsi_orange_threshold |-> 85,
      trim_pct_yellow |-> 2500, trim_pct_orange |-> 5000,
      grace_period_days |-> 0, trend_break_confirm_days |-> 1,
      trim_mode |-> "pct_of_remaining",
      rsi_short_yellow_threshold |-> 0, rsi_short_orange_threshold |-> 0 ]

IMPROVED_CONFIG ==
    Merge(SIGNAL_CONFIG,
    [ grace_period_days |-> 5, trend_break_confirm_days |-> 1,
      trim_mode |-> "pct_of_original",
      rsi_short_yellow_threshold |-> 22, rsi_short_orange_threshold |-> 15,
      volume_confirm |-> TRUE, volume_entry_threshold |-> 8,
      atr_stop_loss |-> TRUE, atr_stop_multiplier |-> 20,
      btc_crash_filter |-> TRUE, btc_crash_threshold |-> -50,
      portfolio_circuit_breaker |-> TRUE, circuit_breaker_pct |-> -100,
      rsi_bb_complementary |-> TRUE, rsi_bb_hold_days |-> 3,
      rsi_bb_stop_pct |-> 50, rsi_bb_trend_filter |-> TRUE,
      rsi_bb_cooldown_days |-> 3 ])

V4_CONSERVATIVE ==
    Merge(IMPROVED_CONFIG,
    [ confirmation_bars |-> 3, rsi_velocity_enabled |-> TRUE,
      rsi_velocity_threshold |-> 10, rsi_velocity_action |-> "close" ])

V4_COMBINED ==
    Merge(IMPROVED_CONFIG,
    [ confirmation_bars |-> 2, rsi_velocity_enabled |-> TRUE,
      rsi_velocity_threshold |-> 15, rsi_velocity_action |-> "warn" ])

V5_BASE ==
    Merge(IMPROVED_CONFIG,
    [ rsi_bb_complementary |-> FALSE,
      profit_ladder_enabled |-> FALSE,
      profit_ladder_levels |-> <<15, 25, 35>>,
      profit_ladder_fractions |-> <<1000, 1000, 1000>>,
      pullback_reentry |-> FALSE, pullback_ema_buffer_pct |-> 5,
      pullback_min_profit_pct |-> 50, pullback_add_frac |-> 2500,
      pullback_max_adds |-> 2,
      dca_enabled |-> FALSE, dca_tranches |-> <<2500, 2500, 2500, 2500>>,
      dca_interval_bars |-> 2, dca_max_adverse_pct |-> 30,
      bb_improved |-> FALSE, bb_improved_hold_days |-> 2,
      bb_improved_stop_pct |-> 30, bb_improved_position_mult |-> 3000,
      bb_improved_cooldown_days |-> 2 ])

V5F_FULL_SUITE ==
    Merge(V5_BASE,
    [ profit_ladder_enabled |-> TRUE, pullback_reentry |-> TRUE,
      bb_improved |-> TRUE ])

V5G_NO_BB ==
    Merge(V5_BASE,
    [ profit_ladder_enabled |-> TRUE, pullback_reentry |-> TRUE,
      dca_enabled |-> TRUE ])

V6A_TRAILING_STOP ==
    Merge(V5F_FULL_SUITE,
    [ trailing_stop_short |-> TRUE, trailing_stop_activation_pct |-> 50,
      trailing_stop_trail_pct |-> 25, pullback_reentry_short |-> FALSE ])

V6D_TRAILING_BOTH ==
    Merge(V6A_TRAILING_STOP, [ trailing_stop_long |-> TRUE ])

----------------------------------------------------------------------------
(* evaluate_signal *)

\* ((entry - price) / entry) * 100 for a long's drawdown or a short's profit,
\* ((price - entry) / entry) * 100 for a long's profit or a short's drawdown.
PctDown(entry_price, price) == Rat((entry_price - price) * 100, entry_price)
PctUp(entry_price, price) == Rat((price - entry_price) * 100, entry_price)

\* The stop-loss test shared by both override blocks: dynamic (a multiple of
\* atr_pct) when enabled and atr_pct is defined, the fixed percentage otherwise.
StopLossReason(drawdown, atr_pct, config) ==
    IF Get(config, "atr_stop_loss", FALSE) /\ ~IsNa(atr_pct)
    THEN IF RGe(drawdown, Rat(atr_pct * Get(config, "atr_stop_multiplier", 20), 100))
         THEN "atr_stop_loss" ELSE "none"
    ELSE IF RGe(drawdown, T(config.stop_loss_pct))
         THEN "stop_loss" ELSE "none"

\* Faulty variant of the grace test: overrides start one bar late.
OverridesActive_OneBarLate(open_trade, config, bar_index) ==
    bar_index - Get(open_trade, "entry_bar_index", 0)
        > Get(config, "grace_period_days", 0)

OverridesActive(open_trade, config, bar_index) ==
    bar_index - Get(open_trade, "entry_bar_index", 0)
        >= Get(config, "grace_period_days", 0)

\* Faulty variant of the long's overrides: the trend break is tested first.
LongOverride_TrendFirst(r, open_trade, config, bar_index) ==
    IF open_trade # None /\ open_trade.direction = "long"
       /\ OverridesActive(open_trade, config, bar_index)
    THEN LET sl == StopLossReason(PctDown(open_trade.entry_price, r.close),
                                  r.atr_pct, config)
         IN  IF r.days_below_sma50 >= Get(config, "trend_break_confirm_days", 1)
             THEN <<"red", "trend_break">>
             ELSE IF sl # "none" THEN <<"red", sl>>
                  ELSE <<"none", "none">>
    ELSE <<"none", "none">>

LongOverride(r, open_trade, config, bar_index) ==
    IF open_trade # None /\ open_trade.direction = "long"
       /\ OverridesActive(open_trade, config, bar_index)
    THEN LET sl == StopLossReason(PctDown(open_trade.entry_price, r.close),
                                  r.atr_pct, config)
         IN  IF sl # "none" THEN <<"red", sl>>
             ELSE IF r.days_below_sma50 >= Get(config, "trend_break_confirm_days", 1)
                  THEN <<"red", "trend_break">>
                  ELSE <<"none", "none">>
    ELSE <<"none", "none">>

ShortOverride(r, open_trade, config, bar_index) ==
    IF open_trade # None /\ open_trade.direction = "short"
       /\ OverridesActive(open_trade, config, bar_index)
    THEN LET sl == StopLossReason(PctUp(open_trade.entry_price, r.close),
                                  r.atr_pct, config)
         IN  IF sl # "none" THEN <<"green", sl>> ELSE <<"none", "none">>
    ELSE <<"none", "none">>

VolumeTooLow(r, config) ==
    /\ Get(config, "volume_confirm", FALSE)
    /\ ~IsNa(r.volume_ratio)
    /\ r.volume_ratio < Get(config, "volume_entry_threshold", 12)

\* Faulty variant of the bullish entry rules: the volume gate is tested first.
GreenEntry_VolumeFirst(r, config) ==
    IF VolumeTooLow(r, config) THEN <<"grey", "low_volume">>
    ELSE IF NLt(r.adx, config.adx_threshold) THEN <<"grey", "chop">>
    ELSE IF NLt(r.rsi_14, config.rsi_long_entry_min)
            \/ NGt(r.rsi_14, config.rsi_long_entry_max)
         THEN <<"grey", "rsi_out_of_range">>
    ELSE IF NLt(r.close, r.sma_50) THEN <<"grey", "trend_disagree">>
    ELSE IF r.recent_bearish_cross THEN <<"grey", "anti_whipsaw">>
    ELSE <<"green", "ema_cross_up">>

GreenEntry(r, config) ==
    IF NLt(r.adx, config.adx_threshold) THEN <<"grey", "chop">>
    ELSE IF NLt(r.rsi_14, config.rsi_long_entry_min)
            \/ NGt(r.rsi_14, config.rsi_long_entry_max)
         THEN <<"grey", "rsi_out_of_range">>
    ELSE IF NLt(r.close, r.sma_50) THEN <<"grey", "trend_disagree">>
    ELSE IF r.recent_bearish_cross THEN <<"grey", "anti_whipsaw">>
    ELSE IF VolumeTooLow(r, config) THEN <<"grey", "low_volume">>
    ELSE <<"green", "ema_cross_up">>

RedEntry(r, config) ==
    IF NLt(r.adx, config.adx_threshold) THEN <<"grey", "chop">>
    ELSE IF NLt(r.rsi_14, config.rsi_short_entry_min)
            \/ NGt(r.rsi_14, config.rsi_short_entry_max)
         THEN <<"grey", "rsi_out_of_range">>
    ELSE IF NGt(r.close, r.sma_50) THEN <<"grey", "trend_disagree">>
    ELSE IF r.recent_bullish_cross THEN <<"grey", "anti_whipsaw">>
    ELSE IF VolumeTooLow(r, config) THEN <<"grey", "low_volume">>
    ELSE <<"red", "ema_cross_down">>

evaluate_signal(r, open_trade, config, bar_index) ==
    LET lo == LongOverride(r, open_trade, config, bar_index)
        so == ShortOverride(r, open_trade, config, bar_index)
    IN  IF lo[1] # "none" THEN lo
        ELSE IF so[1] # "none" THEN so
        ELSE IF r.ema_crossed_up THEN GreenEntry(r, config)
        ELSE IF r.ema_crossed_down THEN RedEntry(r, config)
        ELSE <<"grey", "no_change">>

----------------------------------------------------------------------------
(* simulate_trades: locals before the first bar *)

Zero == Rat(0, 1)

InitSim(config, is_btc, has_btc_df) ==
    [ trades |-> <<>>,
      open_long |-> None, open_short |-> None,
      long_remaining_frac |-> 10000, short_remaining_frac |-> 10000,
      bb_open_long |-> None, bb_open_short |-> None,
      bb_long_bars |-> 0, bb_short_bars |-> 0,
      bb_long_cooldown_until |-> -1, bb_short_cooldown_until |-> -1,
      consecutive_green |-> 0, consecutive_red |-> 0,
      btc_crash_enabled |->
          Get(config, "btc_crash_filter", FALSE) /\ ~is_btc /\ has_btc_df,
      ladder_trims_long |-> {}, ladder_trims_short |-> {},
      reentry_pieces_long |-> <<>>, reentry_pieces_short |-> <<>>,
      pullback_adds_long |-> 0, pullback_adds_short |-> 0,
      dca_active_long |-> FALSE, dca_active_short |-> FALSE,
      dca_tranche_idx_long |-> 0, dca_tranche_idx_short |-> 0,
      dca_last_fill_bar_long |-> -999, dca_last_fill_bar_short |-> -999,
      dca_first_entry_price_long |-> 0, dca_first_entry_price_short |-> 0,
      bb2_open_long |-> None, bb2_open_short |-> None,
      bb2_long_bars |-> 0, bb2_short_bars |-> 0,
      bb2_long_cooldown_until |-> -1, bb2_short_cooldown_until |-> -1,
      short_peak_profit |-> Zero, long_peak_profit |-> Zero,
      \* loop variables of the bar being processed
      bar_idx |-> -1, color |-> "grey", reason |-> "no_change",
      trimmed_this_bar |-> FALSE, skipped_bar |-> FALSE,
      \* history: positions opened so far, per kind
      opened |-> [k \in {"long", "short", "bb_long", "bb_short",
                         "bb2_long", "bb2_short"} |-> 0] ]

\* trades.append({**open_trade, exit fields...}) for a primary position
ClosedPrimary(open_trade, date, price, color, reason, pnl_pct, remaining) ==
    Merge(open_trade,
    [ exit_date |-> date, exit_price |-> Round2(price),
      exit_signal_color |-> color, exit_signal_reason |-> reason,
      pnl_pct |-> pnl_pct, pnl_usd |-> PnlUsdOfRounded(remaining, pnl_pct),
      remaining_pct |-> RoundFracPct(remaining), status |-> "closed" ])

\* trades.append({"direction": "trim", ...}); trim_frac is the unrounded
\* trim_of_original that the ledger keeps rounded as trim_pct.
TrimRecord(open_trade, entry_color, entry_reason, date, price, exit_color, exit_reason, pnl_pct, pnl_usd, trim) ==
    [ direction |-> "trim", entry_date |-> open_trade.entry_date,
      entry_price |-> open_trade.entry_price,
      entry_signal_color |-> entry_color, entry_signal_reason |-> entry_reason,
      exit_date |-> date, exit_price |-> Round2(price),
      exit_signal_color |-> exit_color, exit_signal_reason |-> exit_reason,
      pnl_pct |-> pnl_pct, pnl_usd |-> pnl_usd,
      trim_pct |-> RoundFracPct(trim), trim_frac |-> trim, status |-> "closed" ]

----------------------------------------------------------------------------
(* simulate_trades: the blocks of one bar, in source order.  Each takes the  *)
(* locals s (bar_idx already set), the bar r and the configuration.          *)

\* BTC crash filter: the bar is skipped (continue) after the defensive close.
BtcCrashFires(s, r, config) ==
    /\ s.btc_crash_enabled /\ s.open_long # None
    /\ r.btc_in_index
    /\ ~IsNa(r.btc_return)
    /\ r.btc_return <= Get(config, "btc_crash_threshold", -50)

\* Faulty variant of the defensive close: the complementary shorts are
\* dropped with the long.
BtcCrashClose_DropsBands(s, r) ==
    LET pnl_pct == RoundPct(PctUp(s.open_long.entry_price, r.close))
    IN  [s EXCEPT
          !.trades = Append(@, ClosedPrimary(s.open_long, s.bar_idx, r.close,
                        "red", "btc_crash", pnl_pct, s.long_remaining_frac)),
          !.open_long = None,
          !.long_remaining_frac = 10000,
          !.long_peak_profit = Zero,
          !.bb_open_short = None,
          !.bb2_open_short = None,
          !.skipped_bar = TRUE]

BtcCrashClose(s, r) ==
    LET pnl_pct == RoundPct(PctUp(s.open_long.entry_price, r.close))
    IN  [s EXCEPT
          !.trades = Append(@, ClosedPrimary(s.open_long, s.bar_idx, r.close,
                        "red", "btc_crash", pnl_pct, s.long_remaining_frac)),
          !.open_long = None,
          !.long_remaining_frac = 10000,
          !.long_peak_profit = Zero,
          !.skipped_bar = TRUE]

\* Lines 1220-1233: the signal with the long's context, then the short's stop.
ShortStopApplies(color, short_sig) ==
    /\ color # "green"
    /\ short_sig[1] = "green"
    /\ short_sig[2] \in {"atr_stop_loss", "stop_loss"}

EvaluateBar(s, r, config) ==
    LET sig == evaluate_signal(r, s.open_long, config, s.bar_idx)
        short_sig == IF s.open_short # None
                     THEN evaluate_signal(r, s.open_short, config, s.bar_idx)
                     ELSE <<"grey", "no_change">>
        final == IF s.open_short # None /\ ShortStopApplies(sig[1], short_sig)
                 THEN short_sig ELSE sig
    IN  [s EXCEPT !.color = final[1], !.reason = final[2]]

\* Faulty variant of the retrace test: a retrace of exactly the trail distance
\* does not fire.
TrailingFires_StrictTrail(peak, current, config) ==
    /\ RGe(peak, T(Get(config, "trailing_stop_activation_pct", 50)))
    /\ RGt(RSub(peak, current), T(Get(config, "trailing_stop_trail_pct", 25)))

\* Faulty variant of the long-side switch: it reads the short-side key.
TrailingStopLongEnabled_ShortKey(config) == Get(config, "trailing_stop_short", FALSE)

\* The retrace test of both trailing stops.
TrailingFires(peak, current, config) ==
    /\ RGe(peak, T(Get(config, "trailing_stop_activation_pct", 50)))
    /\ RGe(RSub(peak, current), T(Get(config, "trailing_stop_trail_pct", 25)))

TrailingStopShortEnabled(config) == Get(config, "trailing_stop_short", FALSE)
TrailingStopLongEnabled(config) == Get(config, "trailing_stop_long", FALSE)

TrailingStopShort(s, r, config) ==
    IF TrailingStopShortEnabled(config) /\ s.open_short # None /\ s.color # "green"
    THEN LET current == PctDown(s.open_short.entry_price, r.close)
             peak == IF RGt(current, s.short_peak_profit)
                     THEN current ELSE s.short_peak_profit
             fire == TrailingFires(peak, current, config)
         IN  [s EXCEPT !.short_peak_profit = peak,
                       !.color = IF fire THEN "green" ELSE @,
                       !.reason = IF fire THEN "trailing_stop" ELSE @]
    ELSE s

TrailingStopLong(s, r, config) ==
    IF TrailingStopLongEnabled(config) /\ s.open_long # None /\ s.color # "red"
    THEN LET current == PctUp(s.open_long.entry_price, r.close)
             peak == IF RGt(current, s.long_peak_profit)
                     THEN current ELSE s.long_peak_profit
             fire == TrailingFires(peak, current, config)
         IN  [s EXCEPT !.long_peak_profit = peak,
                       !.color = IF fire THEN "red" ELSE @,
                       !.reason = IF fire THEN "trailing_stop" ELSE @]
    ELSE s

\* Faulty variant of the event test: the first threshold is tested first, so
\* the stronger event is never reported.
check_yellow_events_FirstOnly(rsi14, direction, config) ==
    IF IsNa(rsi14) THEN "none"
    ELSE IF direction = "long"
    THEN IF rsi14 >= config.rsi_yellow_threshold THEN "take_profit" ELSE "none"
    ELSE LET short_yellow == Get(config, "rsi_short_yellow_threshold", 0)
         IN  IF short_yellow > 0 /\ rsi14 <= short_yellow THEN "take_profit"
             ELSE "none"

\* check_yellow_events
check_yellow_events(rsi14, direction, config) ==
    IF IsNa(rsi14) THEN "none"
    ELSE IF direction = "long"
    THEN IF rsi14 >= config.rsi_orange_threshold THEN "strong_take_profit"
         ELSE IF rsi14 >= config.rsi_yellow_threshold THEN "take_profit"
         ELSE "none"
    ELSE LET short_orange == Get(config, "rsi_short_orange_threshold", 0)
             short_yellow == Get(config, "rsi_short_yellow_threshold", 0)
         IN  IF short_orange > 0 /\ rsi14 <= short_orange THEN "strong_take_profit"
             ELSE IF short_yellow > 0 /\ rsi14 <= short_yellow THEN "take_profit"
             ELSE "none"

profit_ladder_levels(config) == Get(config, "profit_ladder_levels", <<15, 25, 35>>)
profit_ladder_fractions(config) ==
    Get(config, "profit_ladder_fractions", <<1000, 1000, 1000>>)
short_ladder_levels(config) ==
    Get(config, "short_ladder_levels", profit_ladder_levels(config))
short_ladder_fractions(config) ==
    Get(config, "short_ladder_fractions", profit_ladder_fractions(config))

LadderReason(level) == "ladder_" \o ToString(level) \o "pct"

\* Profit ladder, long: the for-loop over zip(levels, fractions) from level i on.
RECURSIVE LadderLongFrom(_, _, _, _, _)
LadderLongFrom(s, r, levels, fracs, i) ==
    IF i > Min(Len(levels), Len(fracs)) THEN s
    ELSE
    LET profit_pct == PctUp(s.open_long.entry_price, r.close)
        trim == Min(fracs[i], s.long_remaining_frac)
        hit == (i - 1) \notin s.ladder_trims_long /\ RGe(profit_pct, Rat(levels[i], 1))
        s2 == IF hit /\ trim > 100
              THEN [s EXCEPT
                    !.trades = Append(@, TrimRecord(s.open_long, "green",
                        "ema_cross_up", s.bar_idx, r.close, "green",
                        LadderReason(levels[i]), RoundPct(profit_pct),
                        PnlUsd(trim, profit_pct), trim)),
                    !.long_remaining_frac = @ - trim,
                    !.ladder_trims_long = @ \cup {i - 1},
                    !.trimmed_this_bar = TRUE]
              ELSE s
    IN  LadderLongFrom(s2, r, levels, fracs, i + 1)

RECURSIVE LadderShortFrom(_, _, _, _, _)
LadderShortFrom(s, r, levels, fracs, i) ==
    IF i > Min(Len(levels), Len(fracs)) THEN s
    ELSE
    LET profit_pct == PctDown(s.open_short.entry_price, r.close)
        trim == Min(fracs[i], s.short_remaining_frac)
        hit == (i - 1) \notin s.ladder_trims_short /\ RGe(profit_pct, Rat(levels[i], 1))
        s2 == IF hit /\ trim > 100
              THEN [s EXCEPT
                    !.trades = Append(@, TrimRecord(s.open_short, "red",
                        "ema_cross_down", s.bar_idx, r.close, "green",
                        LadderReason(levels[i]), RoundPct(profit_pct),
                        PnlUsd(trim, profit_pct), trim)),
                    !.short_remaining_frac = @ - trim,
                    !.ladder_trims_short = @ \cup {i - 1},
                    !.trimmed_this_bar = TRUE]
              ELSE s
    IN  LadderShortFrom(s2, r, levels, fracs, i + 1)

LadderLong(s, r, config) ==
    IF Get(config, "profit_ladder_enabled", FALSE)
       /\ s.open_long # None /\ s.long_remaining_frac > 1000
    THEN LadderLongFrom(s, r, profit_ladder_levels(config),
                        profit_ladder_fractions(config), 1)
    ELSE s

\* Faulty variant: a ladder trim withdraws the bar's closing signal.
LadderShort_CancelsStop(s, r, config) ==
    IF Get(config, "profit_ladder_enabled", FALSE)
       /\ s.open_short # None /\ s.short_remaining_frac > 1000
    THEN LET s2 == LadderShortFrom(s, r, short_ladder_levels(config),
                                   short_ladder_fractions(config), 1)
         IN  IF s2.trimmed_this_bar
             THEN [s2 EXCEPT !.color = "grey", !.reason = "no_change"]
             ELSE s2
    ELSE s

LadderShort(s, r, config) ==
    IF Get(config, "profit_ladder_enabled", FALSE)
       /\ s.open_short # None /\ s.short_remaining_frac > 1000
    THEN LadderShortFrom(s, r, short_ladder_levels(config),
                         short_ladder_fractions(config), 1)
    ELSE s

\* Faulty variant of the trim sizing: the fixed fraction is not capped by what
\* remains of the position.
YellowTrim_NoCap(yellow_event, remaining, config) ==
    IF yellow_event = "strong_take_profit"
    THEN config.trim_pct_orange ELSE config.trim_pct_yellow

\* Trim sizing of a yellow event
YellowTrim(yellow_event, remaining, config) ==
    LET raw_trim_frac == IF yellow_event = "strong_take_profit"
                         THEN config.trim_pct_orange ELSE config.trim_pct_yellow
    IN  IF Get(config, "trim_mode", "pct_of_remaining") = "pct_of_original"
        THEN Min(raw_trim_frac, remaining)
        ELSE RoundDiv(remaining * raw_trim_frac, 10000)

YellowLong(s, r, config) ==
    IF s.open_long # None /\ s.long_remaining_frac > 1000 /\ ~s.trimmed_this_bar
    THEN LET yellow_event == check_yellow_events(r.rsi_14, "long", config)
             pnl_pct_at_trim == RoundPct(PctUp(s.open_long.entry_price, r.close))
             trim == YellowTrim(yellow_event, s.long_remaining_frac, config)
         IN  IF yellow_event # "none" /\ trim > 500
             THEN [s EXCEPT
                   !.trades = Append(@, TrimRecord(s.open_long, "green",
                       "ema_cross_up", s.bar_idx, r.close, "yellow", yellow_event,
                       pnl_pct_at_trim, PnlUsdOfRounded(trim, pnl_pct_at_trim), trim)),
                   !.long_remaining_frac = @ - trim]
             ELSE s
    ELSE s

YellowShort(s, r, config) ==
    IF s.open_short # None /\ s.short_remaining_frac > 1000 /\ ~s.trimmed_this_bar
    THEN LET yellow_event == check_yellow_events(r.rsi_14, "short", config)
             pnl_pct_at_trim == RoundPct(PctDown(s.open_short.entry_price, r.close))
             trim == YellowTrim(yellow_event, s.short_remaining_frac, config)
         IN  IF yellow_event # "none" /\ trim > 500
             THEN [s EXCEPT
                   !.trades = Append(@, TrimRecord(s.open_short, "red",
                       "ema_cross_down", s.bar_idx, r.close, "yellow", yellow_event,
                       pnl_pct_at_trim, PnlUsdOfRounded(trim, pnl_pct_at_trim), trim)),
                   !.short_remaining_frac = @ - trim]
             ELSE s
    ELSE s

\* RSI velocity detection; the reason's "(+NN)" suffix is not modelled.
VelocityTriggered(s, r, config) ==
    /\ Get(config, "rsi_velocity_enabled", FALSE) /\ ~s.trimmed_this_bar
    /\ ~IsNa(r.rsi_delta)
    /\ Abs(r.rsi_delta) >= Get(config, "rsi_velocity_threshold", 15)

VelocityLong(s, r, config) ==
    IF VelocityTriggered(s, r, config) /\ r.rsi_delta > 0 /\ NGt(r.rsi_14, 60)
       /\ s.open_long # None /\ s.long_remaining_frac > 1000
    THEN LET pnl_pct == RoundPct(PctUp(s.open_long.entry_price, r.close))
             trim_frac == Min(2500, s.long_remaining_frac)
         IN  IF Get(config, "rsi_velocity_action", "warn") = "close"
             THEN [s EXCEPT
                   !.trades = Append(@, ClosedPrimary(s.open_long, s.bar_idx,
                       r.close, "yellow", "rsi_velocity", pnl_pct,
                       s.long_remaining_frac)),
                   !.open_long = None,
                   !.long_remaining_frac = 10000,
                   !.long_peak_profit = Zero]
             ELSE IF trim_frac > 500
             THEN [s EXCEPT
                   !.trades = Append(@, TrimRecord(s.open_long, "green",
                       "ema_cross_up", s.bar_idx, r.close, "yellow", "rsi_velocity",
                       pnl_pct, PnlUsdOfRounded(trim_frac, pnl_pct), trim_frac)),
                   !.long_remaining_frac = @ - trim_frac]
             ELSE s
    ELSE s

VelocityShort(s, r, config) ==
    IF VelocityTriggered(s, r, config) /\ r.rsi_delta < 0 /\ NLt(r.rsi_14, 40)
       /\ s.open_short # None /\ s.short_remaining_frac > 1000
    THEN LET pnl_pct == RoundPct(PctDown(s.open_short.entry_price, r.close))
             trim_frac == Min(2500, s.short_remaining_frac)
         IN  IF Get(config, "rsi_velocity_action", "warn") = "close"
             THEN [s EXCEPT
                   !.trades = Append(@, ClosedPrimary(s.open_short, s.bar_idx,
                       r.close, "yellow", "rsi_velocity", pnl_pct,
                       s.short_remaining_frac)),
                   !.open_short = None,
                   !.short_remaining_frac = 10000,
                   !.short_peak_profit = Zero]
             ELSE IF trim_frac > 500
             THEN [s EXCEPT
                   !.trades = Append(@, TrimRecord(s.open_short, "red",
                       "ema_cross_down", s.bar_idx, r.close, "yellow", "rsi_velocity",
                       pnl_pct, PnlUsdOfRounded(trim_frac, pnl_pct), trim_frac)),
                   !.short_remaining_frac = @ - trim_frac]
             ELSE s
    ELSE s

\* A re-entry piece closed with its primary position.
ReentryClosed(piece, entry_color, date, price, color, reason, pnl_pct) ==
    [ direction |-> "reentry", entry_date |-> piece.entry_date,
      entry_price |-> piece.entry_price,
      entry_signal_color |-> entry_color,
      entry_signal_reason |-> "pullback_reentry",
      exit_date |-> date, exit_price |-> Round2(price),
      exit_signal_color |-> color, exit_signal_reason |-> reason,
      pnl_pct |-> pnl_pct, pnl_usd |-> PnlUsdOfRounded(piece.frac, pnl_pct),
      status |-> "closed" ]

ClosedPiecesLong(pieces, date, price, reason) ==
    [i \in 1..Len(pieces) |->
        ReentryClosed(pieces[i], "green", date, price, "red", reason,
                      RoundPct(PctUp(pieces[i].entry_price, price)))]

ClosedPiecesShort(pieces, date, price, reason) ==
    [i \in 1..Len(pieces) |->
        ReentryClosed(pieces[i], "red", date, price, "green", reason,
                      RoundPct(PctDown(pieces[i].entry_price, price)))]

\* Faulty variant of the long close: the re-entry pieces stay open.
CloseLong_LeavesPieces(s, r) ==
    IF s.open_long # None /\ s.color = "red"
    THEN LET pnl_pct == RoundPct(PctUp(s.open_long.entry_price, r.close))
         IN  [s EXCEPT
               !.trades = Append(@, ClosedPrimary(s.open_long, s.bar_idx, r.close,
                              "red", s.reason, pnl_pct, s.long_remaining_frac)),
               !.open_long = None,
               !.long_remaining_frac = 10000,
               !.long_peak_profit = Zero,
               !.ladder_trims_long = {},
               !.dca_active_long = FALSE,
               !.dca_tranche_idx_long = 0]
    ELSE s

\* Close LONG on red signal
CloseLong(s, r) ==
    IF s.open_long # None /\ s.color = "red"
    THEN LET pnl_pct == RoundPct(PctUp(s.open_long.entry_price, r.close))
         IN  [s EXCEPT
               !.trades = Append(@, ClosedPrimary(s.open_long, s.bar_idx, r.close,
                              "red", s.reason, pnl_pct, s.long_remaining_frac))
                          \o ClosedPiecesLong(s.reentry_pieces_long, s.bar_idx,
                                              r.close, s.reason),
               !.open_long = None,
               !.long_remaining_frac = 10000,
               !.long_peak_profit = Zero,
               !.ladder_trims_long = {},
               !.reentry_pieces_long = <<>>,
               !.pullback_adds_long = 0,
               !.dca_active_long = FALSE,
               !.dca_tranche_idx_long = 0]
    ELSE s

\* Faulty variant of the short close: the high-water mark survives the close.
CloseShort_KeepsPeak(s, r) ==
    IF s.open_short # None /\ s.color = "green"
    THEN LET pnl_pct == RoundPct(PctDown(s.open_short.entry_price, r.close))
         IN  [s EXCEPT
               !.trades = Append(@, ClosedPrimary(s.open_short, s.bar_idx, r.close,
                              "green", s.reason, pnl_pct, s.short_remaining_frac))
                          \o ClosedPiecesShort(s.reentry_pieces_short, s.bar_idx,
                                               r.close, s.reason),
               !.open_short = None,
               !.short_remaining_frac = 10000,
               !.ladder_trims_short = {},
               !.reentry_pieces_short = <<>>,
               !.pullback_adds_short = 0,
               !.dca_active_short = FALSE,
               !.dca_tranche_idx_short = 0]
    ELSE s

\* Faulty variant: a trailing-stop close books the peak profit, not the close
CloseShort_PnlAtPeak(s, r) ==
    IF s.open_short # None /\ s.color = "green"
    THEN LET pnl_pct == IF s.reason = "trailing_stop"
                        THEN RoundPct(s.short_peak_profit)
                        ELSE RoundPct(PctDown(s.open_short.entry_price, r.close))
         IN  [s EXCEPT
               !.trades = Append(@, ClosedPrimary(s.open_short, s.bar_idx, r.close,
                              "green", s.reason, pnl_pct, s.short_remaining_frac))
                          \o ClosedPiecesShort(s.reentry_pieces_short, s.bar_idx,
                                               r.close, s.reason),
               !.open_short = None,
               !.short_remaining_frac = 10000,
               !.ladder_trims_short = {},
               !.reentry_pieces_short = <<>>,
               !.pullback_adds_short = 0,
               !.dca_active_short = FALSE,
               !.dca_tranche_idx_short = 0,
               !.short_peak_profit = Zero]
    ELSE s

\* Faulty variant: a bullish cross leaves the short open
CloseShort_NotOnCross(s, r) ==
    IF s.open_short # None /\ s.color = "green" /\ s.reason # "ema_cross_up"
    THEN LET pnl_pct == RoundPct(PctDown(s.open_short.entry_price, r.close))
         IN  [s EXCEPT
               !.trades = Append(@, ClosedPrimary(s.open_short, s.bar_idx, r.close,
                              "green", s.reason, pnl_pct, s.short_remaining_frac))
                          \o ClosedPiecesShort(s.reentry_pieces_short, s.bar_idx,
                                               r.close, s.reason),
               !.open_short = None,
               !.short_remaining_frac = 10000,
               !.ladder_trims_short = {},
               !.reentry_pieces_short = <<>>,
               !.pullback_adds_short = 0,
               !.dca_active_short = FALSE,
               !.dca_tranche_idx_short = 0,
               !.short_peak_profit = Zero]
    ELSE s

\* Close SHORT on green signal
CloseShort(s, r) ==
    IF s.open_short # None /\ s.color = "green"
    THEN LET pnl_pct == RoundPct(PctDown(s.open_short.entry_price, r.close))
         IN  [s EXCEPT
               !.trades = Append(@, ClosedPrimary(s.open_short, s.bar_idx, r.close,
                              "green", s.reason, pnl_pct, s.short_remaining_frac))
                          \o ClosedPiecesShort(s.reentry_pieces_short, s.bar_idx,
                                               r.close, s.reason),
               !.open_short = None,
               !.short_remaining_frac = 10000,
               !.ladder_trims_short = {},
               !.reentry_pieces_short = <<>>,
               !.pullback_adds_short = 0,
               !.dca_active_short = FALSE,
               !.dca_tranche_idx_short = 0,
               !.short_peak_profit = Zero]
    ELSE s

\* Confirmation gate counters
FreshGreen(s) == s.color = "green" /\ s.reason = "ema_cross_up"
FreshRed(s) == s.color = "red" /\ s.reason = "ema_cross_down"

ConfirmGreen(s, r) ==
    IF FreshGreen(s)
    THEN [s EXCEPT !.consecutive_green = 1, !.consecutive_red = 0]
    ELSE IF s.consecutive_green > 0 /\ r.ema_9 > r.ema_21
    THEN [s EXCEPT !.consecutive_green = @ + 1]
    ELSE IF s.consecutive_green > 0
    THEN [s EXCEPT !.consecutive_green = 0]
    ELSE s

ConfirmRed(s, r) ==
    IF FreshRed(s)
    THEN [s EXCEPT !.consecutive_red = 1, !.consecutive_green = 0]
    ELSE IF s.consecutive_red > 0 /\ r.ema_9 < r.ema_21
    THEN [s EXCEPT !.consecutive_red = @ + 1]
    ELSE IF s.consecutive_red > 0
    THEN [s EXCEPT !.consecutive_red = 0]
    ELSE s

confirmation_bars(config) == Get(config, "confirmation_bars", 0)
dca_tranches(config) == Get(config, "dca_tranches", <<2500, 2500, 2500, 2500>>)

\* The informational record of a DCA fill.
DcaEntry(date, price, entry_color, idx, config) ==
    [ direction |-> "dca_entry", entry_date |-> date,
      entry_price |-> Round2(price), entry_signal_color |-> entry_color,
      entry_signal_reason |-> "dca_tranche_" \o ToString(idx) \o "_of_"
                              \o ToString(Len(dca_tranches(config))),
      exit_date |-> date, exit_price |-> Round2(price),
      pnl_pct |-> 0, pnl_usd |-> 0, status |-> "closed" ]

\* Faulty variant of the slot guard: a position is opened over an open one.
SlotFree_Always(s, slot) == TRUE

\* `open_long is None` and its siblings, the guard of every opening block.
SlotFree(s, slot) == s[slot] = None

\* The entry test shared by both directions: gate disabled and this is the
\* cross bar, or gate enabled and the cross has held long enough.
EntryAllowed(consecutive, fresh, config) ==
    /\ consecutive > 0
    /\ confirmation_bars(config) <= 0 \/ consecutive >= confirmation_bars(config)
    /\ ~(confirmation_bars(config) <= 0 /\ ~fresh)

OpenLong(s, r, config) ==
    IF SlotFree(s, "open_long") /\ EntryAllowed(s.consecutive_green, FreshGreen(s), config)
    THEN LET pos == [ direction |-> "long", entry_date |-> s.bar_idx,
                      entry_price |-> Round2(r.close),
                      entry_signal_color |-> "green",
                      entry_signal_reason |->
                          IF confirmation_bars(config) > 0
                          THEN "ema_cross_up_confirmed" ELSE s.reason,
                      entry_bar_index |-> s.bar_idx ]
             s1 == [s EXCEPT !.open_long = pos,
                             !.long_peak_profit = Zero,
                             !.consecutive_green = 0,
                             !.opened.long = @ + 1]
         IN  IF Get(config, "dca_enabled", FALSE)
             THEN [s1 EXCEPT
                   !.long_remaining_frac =
                       IF Len(dca_tranches(config)) > 0
                       THEN dca_tranches(config)[1] ELSE 10000,
                   !.dca_active_long = TRUE,
                   !.dca_tranche_idx_long = 1,
                   !.dca_last_fill_bar_long = s.bar_idx,
                   !.dca_first_entry_price_long = r.close,
                   !.trades = Append(@, DcaEntry(s.bar_idx, r.close, "green", 1,
                                                 config))]
             ELSE [s1 EXCEPT !.long_remaining_frac = 10000]
    ELSE s

OpenShort(s, r, config) ==
    IF SlotFree(s, "open_short") /\ EntryAllowed(s.consecutive_red, FreshRed(s), config)
    THEN LET pos == [ direction |-> "short", entry_date |-> s.bar_idx,
                      entry_price |-> Round2(r.close),
                      entry_signal_color |-> "red",
                      entry_signal_reason |->
                          IF confirmation_bars(config) > 0
                          THEN "ema_cross_down_confirmed" ELSE s.reason,
                      entry_bar_index |-> s.bar_idx ]
             s1 == [s EXCEPT !.open_short = pos,
                             !.short_peak_profit = Zero,
                             !.consecutive_red = 0,
                             !.opened.short = @ + 1]
         IN  IF Get(config, "dca_enabled", FALSE)
             THEN [s1 EXCEPT
                   !.short_remaining_frac =
                       IF Len(dca_tranches(config)) > 0
                       THEN dca_tranches(config)[1] ELSE 10000,
                   !.dca_active_short = TRUE,
                   !.dca_tranche_idx_short = 1,
                   !.dca_last_fill_bar_short = s.bar_idx,
                   !.dca_first_entry_price_short = r.close,
                   !.trades = Append(@, DcaEntry(s.bar_idx, r.close, "red", 1,
                                                 config))]
             ELSE [s1 EXCEPT !.short_remaining_frac = 10000]
    ELSE s

\* Faulty variant of the long tranche fill: the adverse-move cap is not
\* tested.
DcaFillLong_NoCap(s, r, config) ==
    IF Get(config, "dca_enabled", FALSE) /\ ~s.trimmed_this_bar
       /\ s.dca_active_long /\ s.open_long # None
       /\ s.dca_tranche_idx_long < Len(dca_tranches(config))
       /\ s.bar_idx - s.dca_last_fill_bar_long >= Get(config, "dca_interval_bars", 2)
       /\ r.ema_9 > r.ema_21
    THEN LET tranche_frac == dca_tranches(config)[s.dca_tranche_idx_long + 1]
             new_total == s.long_remaining_frac * s.open_long.entry_price
                          + tranche_frac * r.close
             remaining == s.long_remaining_frac + tranche_frac
             idx == s.dca_tranche_idx_long + 1
         IN  [s EXCEPT
               !.long_remaining_frac = remaining,
               !.open_long.entry_price = 10 * RoundDiv(new_total, 10 * remaining),
               !.dca_tranche_idx_long = idx,
               !.dca_last_fill_bar_long = s.bar_idx,
               !.trades = Append(@, DcaEntry(s.bar_idx, r.close, "green", idx,
                                             config)),
               !.dca_active_long = idx < Len(dca_tranches(config))]
    ELSE s

\* DCA tranche fill, long: VWAP entry price round(new_total / remaining, 2)
DcaFillLong(s, r, config) ==
    IF Get(config, "dca_enabled", FALSE) /\ ~s.trimmed_this_bar
       /\ s.dca_active_long /\ s.open_long # None
       /\ s.dca_tranche_idx_long < Len(dca_tranches(config))
       /\ s.bar_idx - s.dca_last_fill_bar_long >= Get(config, "dca_interval_bars", 2)
    THEN LET adverse_pct == PctDown(s.dca_first_entry_price_long, r.close)
             within == RLe(adverse_pct, T(Get(config, "dca_max_adverse_pct", 30)))
             tranche_frac == dca_tranches(config)[s.dca_tranche_idx_long + 1]
             new_total == s.long_remaining_frac * s.open_long.entry_price
                          + tranche_frac * r.close
             remaining == s.long_remaining_frac + tranche_frac
             idx == s.dca_tranche_idx_long + 1
         IN  IF r.ema_9 > r.ema_21 /\ within
             THEN [s EXCEPT
                   !.long_remaining_frac = remaining,
                   !.open_long.entry_price = 10 * RoundDiv(new_total, 10 * remaining),
                   !.dca_tranche_idx_long = idx,
                   !.dca_last_fill_bar_long = s.bar_idx,
                   !.trades = Append(@, DcaEntry(s.bar_idx, r.close, "green", idx,
                                                 config)),
                   !.dca_active_long = idx < Len(dca_tranches(config))]
             ELSE IF ~within
             THEN [s EXCEPT !.dca_active_long = FALSE]
             ELSE s
    ELSE s

DcaFillShort(s, r, config) ==
    IF Get(config, "dca_enabled", FALSE) /\ ~s.trimmed_this_bar
       /\ s.dca_active_short /\ s.open_short # None
       /\ s.dca_tranche_idx_short < Len(dca_tranches(config))
       /\ s.bar_idx - s.dca_last_fill_bar_short >= Get(config, "dca_interval_bars", 2)
    THEN LET adverse_pct == PctUp(s.dca_first_entry_price_short, r.close)
             within == RLe(adverse_pct, T(Get(config, "dca_max_adverse_pct", 30)))
             tranche_frac == dca_tranches(config)[s.dca_tranche_idx_short + 1]
             new_total == s.short_remaining_frac * s.open_short.entry_price
                          + tranche_frac * r.close
             remaining == s.short_remaining_frac + tranche_frac
             idx == s.dca_tranche_idx_short + 1
         IN  IF r.ema_9 < r.ema_21 /\ within
             THEN [s EXCEPT
                   !.short_remaining_frac = remaining,
                   !.open_short.entry_price = 10 * RoundDiv(new_total, 10 * remaining),
                   !.dca_tranche_idx_short = idx,
                   !.dca_last_fill_bar_short = s.bar_idx,
                   !.trades = Append(@, DcaEntry(s.bar_idx, r.close, "red", idx,
                                                 config)),
                   !.dca_active_short = idx < Len(dca_tranches(config))]
             ELSE IF ~within
             THEN [s EXCEPT !.dca_active_short = FALSE]
             ELSE s
    ELSE s

\* Pullback re-entry
pullback_reentry_short_enabled(config) ==
    Get(config, "pullback_reentry_short", Get(config, "pullback_reentry", FALSE))

\* The informational record logged when a piece is added.
ReentryOpened(date, price, entry_color) ==
    [ direction |-> "reentry", entry_date |-> date,
      entry_price |-> Round2(price), entry_signal_color |-> entry_color,
      entry_signal_reason |-> "pullback_reentry",
      exit_date |-> NoneDate, exit_price |-> Round2(price),
      pnl_pct |-> 0, pnl_usd |-> 0, status |-> "open" ]

PullbackNear(r, config) ==
    RLe(RAbs(Rat((r.close - r.ema_9) * 100, r.ema_9)),
        T(Get(config, "pullback_ema_buffer_pct", 5)))

\* Faulty variant of the long re-entry: the number of adds is not limited.
PullbackLong_NoLimit(s, r, config) ==
    IF Get(config, "pullback_reentry", FALSE) /\ ~s.trimmed_this_bar
       /\ s.open_long # None /\ ~s.dca_active_long
       /\ RGe(PctUp(s.open_long.entry_price, r.close),
              T(Get(config, "pullback_min_profit_pct", 50)))
       /\ PullbackNear(r, config)
       /\ r.ema_9 > r.ema_21
    THEN [s EXCEPT
          !.reentry_pieces_long = Append(@,
              [ entry_price |-> Round2(r.close), entry_date |-> s.bar_idx,
                frac |-> Get(config, "pullback_add_frac", 2500) ]),
          !.pullback_adds_long = @ + 1,
          !.trades = Append(@, ReentryOpened(s.bar_idx, r.close, "green"))]
    ELSE s

PullbackLong(s, r, config) ==
    IF Get(config, "pullback_reentry", FALSE) /\ ~s.trimmed_this_bar
       /\ s.open_long # None /\ ~s.dca_active_long
       /\ s.pullback_adds_long < Get(config, "pullback_max_adds", 2)
       /\ RGe(PctUp(s.open_long.entry_price, r.close),
              T(Get(config, "pullback_min_profit_pct", 50)))
       /\ PullbackNear(r, config)
       /\ r.ema_9 > r.ema_21
    THEN [s EXCEPT
          !.reentry_pieces_long = Append(@,
              [ entry_price |-> Round2(r.close), entry_date |-> s.bar_idx,
                frac |-> Get(config, "pullback_add_frac", 2500) ]),
          !.pullback_adds_long = @ + 1,
          !.trades = Append(@, ReentryOpened(s.bar_idx, r.close, "green"))]
    ELSE s

PullbackShort(s, r, config) ==
    IF Get(config, "pullback_reentry", FALSE) /\ ~s.trimmed_this_bar
       /\ pullback_reentry_short_enabled(config)
       /\ s.open_short # None /\ ~s.dca_active_short
       /\ s.pullback_adds_short < Get(config, "pullback_max_adds", 2)
       /\ RGe(PctDown(s.open_short.entry_price, r.close),
              T(Get(config, "pullback_min_profit_pct", 50)))
       /\ PullbackNear(r, config)
       /\ r.ema_9 < r.ema_21
    THEN [s EXCEPT
          !.reentry_pieces_short = Append(@,
              [ entry_price |-> Round2(r.close), entry_date |-> s.bar_idx,
                frac |-> Get(config, "pullback_add_frac", 2500) ]),
          !.pullback_adds_short = @ + 1,
          !.trades = Append(@, ReentryOpened(s.bar_idx, r.close, "red"))]
    ELSE s

\* RSI Bollinger-band trades (BB and BB2).  The four close blocks and the four
\* open blocks of the source differ only in the locals they use: `slot`, `bars`
\* and `cooldown` name those locals, `frac` is the position multiplier.
\* Faulty variant of the band close: a stop-out starts no cooldown.
BBClose_NoCooldown(s, r, slot, bars, cooldown, is_long, hold_days, stop_pct, frac, cooldown_days, prefix) ==
    IF s[slot] # None
    THEN LET n == s[bars] + 1
             pnl_pct == RoundPct(IF is_long
                                 THEN PctUp(s[slot].entry_price, r.close)
                                 ELSE PctDown(s[slot].entry_price, r.close))
             stopped == pnl_pct <= -(stop_pct * 10)
             target == IF is_long THEN NGt(r.rsi_14, 50) ELSE NLt(r.rsi_14, 50)
         IN  IF n >= hold_days \/ target \/ stopped
             THEN [s EXCEPT
                   !.trades = Append(@, Merge(s[slot],
                       [ exit_date |-> s.bar_idx, exit_price |-> Round2(r.close),
                         exit_signal_color |-> "grey",
                         exit_signal_reason |->
                             IF stopped THEN prefix \o "_stop"
                             ELSE IF n >= hold_days THEN prefix \o "_expiry"
                             ELSE prefix \o "_target",
                         pnl_pct |-> pnl_pct,
                         pnl_usd |-> PnlUsdOfRounded(frac, pnl_pct),
                         status |-> "closed" ])),
                   ![slot] = None,
                   ![bars] = 0]
             ELSE [s EXCEPT ![bars] = n]
    ELSE s

BBClose(s, r, slot, bars, cooldown, is_long, hold_days, stop_pct, frac, cooldown_days, prefix) ==
    IF s[slot] # None
    THEN LET n == s[bars] + 1
             pnl_pct == RoundPct(IF is_long
                                 THEN PctUp(s[slot].entry_price, r.close)
                                 ELSE PctDown(s[slot].entry_price, r.close))
             stopped == pnl_pct <= -(stop_pct * 10)
             target == IF is_long THEN NGt(r.rsi_14, 50) ELSE NLt(r.rsi_14, 50)
         IN  IF n >= hold_days \/ target \/ stopped
             THEN [s EXCEPT
                   !.trades = Append(@, Merge(s[slot],
                       [ exit_date |-> s.bar_idx, exit_price |-> Round2(r.close),
                         exit_signal_color |-> "grey",
                         exit_signal_reason |->
                             IF stopped THEN prefix \o "_stop"
                             ELSE IF n >= hold_days THEN prefix \o "_expiry"
                             ELSE prefix \o "_target",
                         pnl_pct |-> pnl_pct,
                         pnl_usd |-> PnlUsdOfRounded(frac, pnl_pct),
                         status |-> "closed" ])),
                   ![slot] = None,
                   ![cooldown] = IF stopped /\ cooldown_days > 0
                                 THEN s.bar_idx + cooldown_days ELSE @,
                   ![bars] = 0]
             ELSE [s EXCEPT ![bars] = n]
    ELSE s

\* Faulty variant of the band open: the trade is put into the primary slot.
BBOpen_IntoPrimary(s, r, slot, bars, cooldown, primary, trigger, ok, direction, color, reason) ==
    IF trigger /\ SlotFree(s, slot) /\ s[primary] = None /\ ok
       /\ s.bar_idx > s[cooldown]
    THEN [s EXCEPT
          ![primary] = [ direction |-> direction, entry_date |-> s.bar_idx,
                         entry_price |-> Round2(r.close),
                         entry_signal_color |-> color,
                         entry_signal_reason |-> reason,
                         entry_bar_index |-> s.bar_idx ],
          ![bars] = 0,
          !.opened[direction] = @ + 1]
    ELSE s

\* Faulty variant of the band open: the primary slot is not consulted.
BBOpen_BesidePrimary(s, r, slot, bars, cooldown, primary, trigger, ok, direction, color, reason) ==
    IF trigger /\ SlotFree(s, slot) /\ ok
       /\ s.bar_idx > s[cooldown]
    THEN [s EXCEPT
          ![slot] = [ direction |-> direction, entry_date |-> s.bar_idx,
                      entry_price |-> Round2(r.close),
                      entry_signal_color |-> color,
                      entry_signal_reason |-> reason,
                      entry_bar_index |-> s.bar_idx ],
          ![bars] = 0,
          !.opened[direction] = @ + 1]
    ELSE s

BBOpen(s, r, slot, bars, cooldown, primary, trigger, ok, direction, color, reason) ==
    IF trigger /\ SlotFree(s, slot) /\ s[primary] = None /\ ok
       /\ s.bar_idx > s[cooldown]
    THEN [s EXCEPT
          ![slot] = [ direction |-> direction, entry_date |-> s.bar_idx,
                      entry_price |-> Round2(r.close),
                      entry_signal_color |-> color,
                      entry_signal_reason |-> reason,
                      entry_bar_index |-> s.bar_idx ],
          ![bars] = 0,
          !.opened[direction] = @ + 1]
    ELSE s

BB(s, r, config) ==
    IF Get(config, "rsi_bb_complementary", FALSE)
    THEN LET hold == Get(config, "rsi_bb_hold_days", 5)
             stop == Get(config, "rsi_bb_stop_pct", 50)
             cool == Get(config, "rsi_bb_cooldown_days", 0)
             filter == Get(config, "rsi_bb_trend_filter", FALSE)
             bb_long_ok == ~filter \/ NGt(r.close, r.sma_50)
             bb_short_ok == ~filter \/ NLt(r.close, r.sma_50)
             s1 == BBClose(s, r, "bb_open_long", "bb_long_bars",
                           "bb_long_cooldown_until", TRUE, hold, stop, 5000,
                           cool, "bb")
             s2 == BBClose(s1, r, "bb_open_short", "bb_short_bars",
                           "bb_short_cooldown_until", FALSE, hold, stop, 5000,
                           cool, "bb")
             s3 == BBOpen(s2, r, "bb_open_long", "bb_long_bars",
                          "bb_long_cooldown_until", "open_long", r.rsi_below_bb,
                          bb_long_ok, "bb_long", "green", "rsi_bb_lower")
         IN  BBOpen(s3, r, "bb_open_short", "bb_short_bars",
                    "bb_short_cooldown_until", "open_short", r.rsi_above_bb,
                    bb_short_ok, "bb_short", "red", "rsi_bb_upper")
    ELSE s

BB2(s, r, config) ==
    IF Get(config, "bb_improved", FALSE)
    THEN LET hold == Get(config, "bb_improved_hold_days", 2)
             stop == Get(config, "bb_improved_stop_pct", 30)
             cool == Get(config, "bb_improved_cooldown_days", 2)
             mult == Get(config, "bb_improved_position_mult", 3000)
             s1 == BBClose(s, r, "bb2_open_long", "bb2_long_bars",
                           "bb2_long_cooldown_until", TRUE, hold, stop, mult,
                           cool, "bb2")
             s2 == BBClose(s1, r, "bb2_open_short", "bb2_short_bars",
                           "bb2_short_cooldown_until", FALSE, hold, stop, mult,
                           cool, "bb2")
             s3 == BBOpen(s2, r, "bb2_open_long", "bb2_long_bars",
                          "bb2_long_cooldown_until", "open_long", r.rsi_below_bb2,
                          NGt(r.close, r.sma_50), "bb2_long", "green",
                          "rsi_bb2_lower")
         IN  BBOpen(s3, r, "bb2_open_short", "bb2_short_bars",
                    "bb2_short_cooldown_until", "open_short", r.rsi_above_bb2,
                    NLt(r.close, r.sma_50), "bb2_short", "red", "rsi_bb2_upper")
    ELSE s

\* One iteration of the bar loop.
ProcessBar(s0, r, config) ==
    LET s == [s0 EXCEPT !.bar_idx = @ + 1, !.skipped_bar = FALSE]
    IN  IF BtcCrashFires(s, r, config) THEN BtcCrashClose(s, r)
        ELSE
        LET a == EvaluateBar(s, r, config)
            b == TrailingStopLong(TrailingStopShort(a, r, config), r, config)
            c == [b EXCEPT !.trimmed_this_bar = FALSE]
            d == LadderShort(LadderLong(c, r, config), r, config)
            e == YellowShort(YellowLong(d, r, config), r, config)
            f == VelocityShort(VelocityLong(e, r, config), r, config)
            g == CloseShort(CloseLong(f, r), r)
            h == ConfirmRed(ConfirmGreen(g, r), r)
            i == OpenShort(OpenLong(h, r, config), r, config)
            j == DcaFillShort(DcaFillLong(i, r, config), r, config)
            k == PullbackShort(PullbackLong(j, r, config), r, config)
        IN  BB2(BB(k, r, config), r, config)

\* Faulty variant of the end-of-series record: the position is booked as
\* closed.
OpenPrimary_Closed(open_trade, last_price, pnl_pct, remaining) ==
    Merge(open_trade,
    [ exit_date |-> NoneDate, exit_price |-> Round2(last_price),
      pnl_pct |-> pnl_pct, pnl_usd |-> PnlUsdOfRounded(remaining, pnl_pct),
      remaining_pct |-> RoundFracPct(remaining), status |-> "closed" ])

\* Mark still-open trades at end of backtest.
OpenPrimary(open_trade, last_price, pnl_pct, remaining) ==
    Merge(open_trade,
    [ exit_date |-> NoneDate, exit_price |-> Round2(last_price),
      pnl_pct |-> pnl_pct, pnl_usd |-> PnlUsdOfRounded(remaining, pnl_pct),
      remaining_pct |-> RoundFracPct(remaining), status |-> "open" ])

OpenBB(open_trade, last_price, pnl_pct, frac) ==
    Merge(open_trade,
    [ exit_date |-> NoneDate, exit_price |-> Round2(last_price),
      pnl_pct |-> pnl_pct, pnl_usd |-> PnlUsdOfRounded(frac, pnl_pct),
      status |-> "open" ])

OpenPiece(piece, entry_color, last_price, pnl_pct) ==
    [ direction |-> "reentry", entry_date |-> piece.entry_date,
      entry_price |-> piece.entry_price, entry_signal_color |-> entry_color,
      entry_signal_reason |-> "pullback_reentry",
      exit_date |-> NoneDate, exit_price |-> Round2(last_price),
      pnl_pct |-> pnl_pct, pnl_usd |-> PnlUsdOfRounded(piece.frac, pnl_pct),
      status |-> "open" ]

UpPct(entry_price, price) == RoundPct(PctUp(entry_price, price))
DownPct(entry_price, price) == RoundPct(PctDown(entry_price, price))

Flush(s, last_price, config) ==
    LET mult == Get(config, "bb_improved_position_mult", 3000)
        one(slot, rec) == IF s[slot] # None THEN <<rec>> ELSE <<>>
    IN  s.trades
        \o one("open_long", OpenPrimary(s.open_long, last_price,
               UpPct(s.open_long.entry_price, last_price), s.long_remaining_frac))
        \o one("open_short", OpenPrimary(s.open_short, last_price,
               DownPct(s.open_short.entry_price, last_price), s.short_remaining_frac))
        \o one("bb_open_long", OpenBB(s.bb_open_long, last_price,
               UpPct(s.bb_open_long.entry_price, last_price), 5000))
        \o one("bb_open_short", OpenBB(s.bb_open_short, last_price,
               DownPct(s.bb_open_short.entry_price, last_price), 5000))
        \o one("bb2_open_long", OpenBB(s.bb2_open_long, last_price,
               UpPct(s.bb2_open_long.entry_price, last_price), mult))
        \o one("bb2_open_short", OpenBB(s.bb2_open_short, last_price,
               DownPct(s.bb2_open_short.entry_price, last_price), mult))
        \o [i \in 1..Len(s.reentry_pieces_long) |->
               OpenPiece(s.reentry_pieces_long[i], "green", last_price,
                         UpPct(s.reentry_pieces_long[i].entry_price, last_price))]
        \o [i \in 1..Len(s.reentry_pieces_short) |->
               OpenPiece(s.reentry_pieces_short[i], "red", last_price,
                         DownPct(s.reentry_pieces_short[i].entry_price, last_price))]

----------------------------------------------------------------------------
(* Input bars: the synthetic-bar builders of test_backtest.py *)

make_bar(price, over) ==
    LET sma_50 == Get(over, "sma_50", price)
    IN  Merge(
        [ close |-> price, ema_9 |-> price, ema_21 |-> price,
          rsi_14 |-> 50, sma_50 |-> sma_50, adx |-> 25, atr_pct |-> 20,
          volume_ratio |-> 15,
          rsi_below_bb |-> FALSE, rsi_above_bb |-> FALSE,
          rsi_below_bb2 |-> FALSE, rsi_above_bb2 |-> FALSE,
          rsi_delta |-> 0,
          ema_crossed_up |-> FALSE, ema_crossed_down |-> FALSE,
          recent_bearish_cross |-> FALSE, recent_bullish_cross |-> FALSE,
          days_below_sma50 |-> IF price >= sma_50 THEN 0 ELSE 5,
          \* the asset's date looked up in btc_df
          btc_in_index |-> TRUE, btc_return |-> 0 ],
        over)

make_red_bar(price, over) ==
    make_bar(price, Merge([ema_crossed_down |-> TRUE, rsi_14 |-> 45,
                           sma_50 |-> price + 1000], over))

make_green_bar(price, over) ==
    make_bar(price, Merge([ema_crossed_up |-> TRUE, rsi_14 |-> 55,
                           sma_50 |-> price - 1000], over))

make_grey_bar(price, over) == make_bar(price, over)

NoOver == [x \in {} |-> 0]

\* Longest input series explored.
MaxBars == 6

\* A short from $10.00 that earns 6% and gives 2.5% back, then is stopped out
\* on a bar that is also a bullish cross.
ShortBars ==
    { make_red_bar(10000, NoOver),
      make_grey_bar(9400, [ema_9 |-> 9400, ema_21 |-> 9600]),
      make_grey_bar(9650, [rsi_14 |-> 35, rsi_delta |-> -20]),
      make_green_bar(10500, NoOver) }

\* The mirror image for a long from $10.00.
LongBars ==
    { make_green_bar(10000, NoOver),
      make_grey_bar(10600, [ema_9 |-> 10600, ema_21 |-> 10400]),
      make_grey_bar(10350, [rsi_14 |-> 65, rsi_delta |-> 20]),
      make_red_bar(9500, NoOver) }

\* A long from $10.00 that reaches the first two ladder levels with the
\* oscillator overbought, and its mirror image for a short.
TrimBars ==
    { make_green_bar(10000, NoOver),
      make_grey_bar(11600, [rsi_14 |-> 80, ema_9 |-> 11600, ema_21 |-> 11000]),
      make_grey_bar(12600, [rsi_14 |-> 86, rsi_delta |-> 20, ema_9 |-> 12600,
                            ema_21 |-> 12000]),
      make_grey_bar(10500, [rsi_14 |-> 86, rsi_delta |-> 20]) }

ShortTrimBars ==
    { make_red_bar(10000, NoOver),
      make_grey_bar(8400, [rsi_14 |-> 20, ema_9 |-> 8400, ema_21 |-> 9000]),
      make_grey_bar(9500, [rsi_14 |-> 14, rsi_delta |-> -20]),
      make_green_bar(9000, NoOver) }

\* Oscillator band touches in an uptrend and in a downtrend, a drop through the
\* band trade's stop, and a bullish cross.
BandBars ==
    { make_bar(10000, [sma_50 |-> 9000, rsi_14 |-> 30, rsi_below_bb |-> TRUE,
                       rsi_below_bb2 |-> TRUE, days_below_sma50 |-> 0]),
      make_bar(10000, [sma_50 |-> 11000, rsi_14 |-> 70, rsi_above_bb |-> TRUE,
                       rsi_above_bb2 |-> TRUE]),
      make_bar(9400, [sma_50 |-> 9000, rsi_14 |-> 30, rsi_below_bb |-> TRUE,
                      rsi_below_bb2 |-> TRUE, days_below_sma50 |-> 0]),
      make_green_bar(10000, NoOver) }

\* An altcoin long on days when BTC falls 6%, and on days missing from btc_df.
CrashBars ==
    { make_green_bar(10000, NoOver),
      make_grey_bar(9900, [btc_return |-> -60]),
      make_grey_bar(10100, [btc_in_index |-> FALSE, ema_9 |-> 10100,
                            ema_21 |-> 10000]),
      make_red_bar(9800, [btc_return |-> NaN]) }

\* A bullish cross, a bar on which it persists, a BTC crash day on which the
\* fast average has fallen back, and a bearish cross.
ConfirmBars ==
    { make_green_bar(10000, [ema_21 |-> 9900]),
      make_grey_bar(10100, [ema_9 |-> 10100, ema_21 |-> 10000]),
      make_grey_bar(10000, [ema_9 |-> 9950, ema_21 |-> 10000, btc_return |-> -60]),
      make_red_bar(9900, [ema_21 |-> 10000]) }

\* Both crosses at $10.00, a bar 4% down with the fast average below the slow
\* one and a bar 4% up with the fast average above it: each is a fill for one
\* direction and an adverse move beyond the cap for the other.
StagedBars ==
    { make_green_bar(10000, NoOver),
      make_red_bar(10000, NoOver),
      make_grey_bar(9600, [ema_9 |-> 9600, ema_21 |-> 9700]),
      make_grey_bar(10400, [ema_9 |-> 10400, ema_21 |-> 10300]) }

\* A long that pulls back to its fast average 6% up, a bearish cross that
\* replaces it with a short, and the short's pullback 5.8% down.
PullbackBars ==
    { make_green_bar(10000, NoOver),
      make_grey_bar(10600, [ema_9 |-> 10600, ema_21 |-> 10000]),
      make_red_bar(10300, NoOver),
      make_grey_bar(9700, [ema_9 |-> 9700, ema_21 |-> 10000]) }

\* A configuration built by a caller: the adopted trailing stop together with
\* the velocity close of V4.
TRAILING_WITH_VELOCITY ==
    Merge(V6A_TRAILING_STOP,
    [ rsi_velocity_enabled |-> TRUE, rsi_velocity_threshold |-> 10,
      rsi_velocity_action |-> "close" ])

\* A caller's configuration with the trailing stop on longs only.
TRAILING_LONG_ONLY ==
    Merge(V5F_FULL_SUITE,
    [ trailing_stop_long |-> TRUE, trailing_stop_activation_pct |-> 50,
      trailing_stop_trail_pct |-> 25 ])

\* A caller's configuration: the adopted trailing stop with staged entries
\* whose first tranche is a tenth of the position.
TRAILING_WITH_STAGING ==
    Merge(V6A_TRAILING_STOP,
    [ dca_enabled |-> TRUE, dca_tranches |-> <<1000, 4000, 2500, 2500>> ])

\* A short from $10.00 that is 20% up before its second tranche fills at
\* $8.00, then a bar at $7.00: 16.7% up on the averaged entry of $8.40, which
\* is 3.3% below the peak; and a bullish cross.
StagedTrailBars ==
    { make_red_bar(10000, NoOver),
      make_grey_bar(8000, [ema_9 |-> 8000, ema_21 |-> 9000]),
      make_grey_bar(7000, [ema_9 |-> 7000, ema_21 |-> 8000]),
      make_green_bar(7200, NoOver) }

\* A bullish cross, a bar on which it persists, a bar on which the oscillator
\* surges with the fast average still above the slow one, and a bearish cross.
VelocityBars ==
    { make_green_bar(10000, [ema_21 |-> 9900]),
      make_grey_bar(10100, [ema_9 |-> 10100, ema_21 |-> 10000]),
      make_grey_bar(10200, [rsi_14 |-> 65, rsi_delta |-> 20, ema_9 |-> 10200,
                            ema_21 |-> 10000]),
      make_red_bar(9900, [ema_21 |-> 10000]) }

\* The runs explored: a configuration, the bars its series is drawn from, and
\* the is_btc / btc_df arguments.
Run(config, bars, is_btc, has_btc_df) ==
    [config |-> config, bars |-> bars, is_btc |-> is_btc, has_btc_df |-> has_btc_df]

Runs ==
    [ v6a_short |-> Run(V6A_TRAILING_STOP, ShortBars, TRUE, FALSE),
      v5f_short |-> Run(V5F_FULL_SUITE, ShortBars, TRUE, FALSE),
      v6a_long |-> Run(V6A_TRAILING_STOP, LongBars, TRUE, FALSE),
      v6d_long |-> Run(V6D_TRAILING_BOTH, LongBars, TRUE, FALSE),
      vel_short |-> Run(TRAILING_WITH_VELOCITY, ShortBars, TRUE, FALSE),
      tlo_long |-> Run(TRAILING_LONG_ONLY, LongBars, TRUE, FALSE),
      cur_trim |-> Run(SIGNAL_CONFIG, TrimBars, TRUE, FALSE),
      imp_trim |-> Run(IMPROVED_CONFIG, ShortTrimBars, TRUE, FALSE),
      v5f_trim |-> Run(V5F_FULL_SUITE, TrimBars, TRUE, FALSE),
      v4c_trim |-> Run(V4_COMBINED, TrimBars, TRUE, FALSE),
      v4d_long |-> Run(V4_CONSERVATIVE, LongBars, TRUE, FALSE),
      v5g_dca |-> Run(V5G_NO_BB, TrimBars, TRUE, FALSE),
      imp_band |-> Run(IMPROVED_CONFIG, BandBars, TRUE, FALSE),
      v5f_band |-> Run(V5F_FULL_SUITE, BandBars, TRUE, FALSE),
      imp_crash |-> Run(IMPROVED_CONFIG, CrashBars, FALSE, TRUE),
      v5f_crash |-> Run(V5F_FULL_SUITE, CrashBars \cup TrimBars, FALSE, TRUE),
      imp_bandcrash |-> Run(IMPROVED_CONFIG, CrashBars \cup BandBars, FALSE, TRUE),
      v5f_pullback |-> Run(V5F_FULL_SUITE, PullbackBars, TRUE, FALSE),
      v6d_pullback |-> Run(V6D_TRAILING_BOTH, PullbackBars, TRUE, FALSE),
      v4c_confirm |-> Run(V4_COMBINED, ConfirmBars, FALSE, TRUE),
      v4c_btc |-> Run(V4_COMBINED, ConfirmBars, TRUE, FALSE),
      v5g_staged |-> Run(V5G_NO_BB, StagedBars, TRUE, FALSE),
      trail_staged |-> Run(TRAILING_WITH_STAGING, StagedTrailBars, TRUE, FALSE),
      v4d_velocity |-> Run(V4_CONSERVATIVE, VelocityBars, TRUE, FALSE) ]

NoRow == [close |-> 0]
InitHist == [short_peak |-> Zero, long_peak |-> Zero, green_run |-> 0, red_run |-> 0]

----------------------------------------------------------------------------
(* simulate_trades as a state machine: one step per bar, then the flush *)

\* The post-processors at rest while a replay is explored.
Idle == [phase |-> "idle"]

Init ==
    /\ series = Idle
    /\ cb = Idle /\ pool = Idle /\ lev = Idle /\ ev = Idle
    /\ family \in DOMAIN Runs
    /\ cfg = Runs[family].config
    /\ sim = InitSim(cfg, Runs[family].is_btc, Runs[family].has_btc_df)
    /\ row = NoRow
    /\ phase = "loop"
    /\ cfgB = cfg
    /\ simB = sim
    /\ hist = InitHist

\* The best profit of the short open across the bar, measured on every bar
\* since its entry, independently of the trailing-stop tracker.
SeenShortPeak(h, s, s2, r) ==
    IF s2.open_short = None \/ s.open_short = None
       \/ s2.open_short.entry_bar_index # s.open_short.entry_bar_index
    THEN Zero
    ELSE LET current == PctDown(s.open_short.entry_price, r.close)
         IN  IF RGt(current, h.short_peak) THEN current ELSE h.short_peak

SeenLongPeak(h, s, s2, r) ==
    IF s2.open_long = None \/ s.open_long = None
       \/ s2.open_long.entry_bar_index # s.open_long.entry_bar_index
    THEN Zero
    ELSE LET current == PctUp(s.open_long.entry_price, r.close)
         IN  IF RGt(current, h.long_peak) THEN current ELSE h.long_peak

\* History: the number of bars, ending with this one, since an entry cross
\* of the given colour after which the fast average has been on the cross's
\* side of the slow average on every bar (0 if there is no such cross). The
\* longest such run is kept; a bar skipped by the crash filter evaluates no
\* signal but is a bar of the series like any other.
SeenRun(run, s2, r, color, cross, on_side) ==
    IF run > 0 /\ on_side THEN run + 1
    ELSE IF ~s2.skipped_bar /\ s2.color = color /\ s2.reason = cross THEN 1
    ELSE 0

Bar ==
    /\ phase = "loop"
    /\ sim.bar_idx + 1 < MaxBars
    /\ \E r \in Runs[family].bars :
          /\ row' = r
          /\ sim' = ProcessBar(sim, r, cfg)
          /\ hist' = [short_peak |-> SeenShortPeak(hist, sim, sim', r),
                       long_peak |-> SeenLongPeak(hist, sim, sim', r),
                       green_run |-> SeenRun(hist.green_run, sim', r, "green",
                                             "ema_cross_up", r.ema_9 > r.ema_21),
                       red_run |-> SeenRun(hist.red_run, sim', r, "red",
                                           "ema_cross_down", r.ema_9 < r.ema_21)]
    /\ UNCHANGED <<cfg, phase, cfgB, simB, family, cb, pool, lev, ev, series>>

\* End of the series: df.iloc[-1] needs at least one bar.
Finish ==
    /\ phase = "loop"
    /\ sim.bar_idx >= 0
    /\ sim' = [sim EXCEPT !.trades = Flush(sim, row.close, cfg)]
    /\ phase' = "done"
    /\ UNCHANGED <<cfg, row, cfgB, simB, family, hist, cb, pool, lev, ev, series>>

Next == Bar \/ Finish

Spec == Init /\ [][Next]_vars

----------------------------------------------------------------------------
(* Reading the ledger *)

ExitReason(t) == Get(t, "exit_signal_reason", "none")
IsClosed(t) == t.status = "closed"

\* Records of the long side: the primary long, its trims and its re-entry pieces.
LongSide(t) ==
    \/ t.direction = "long"
    \/ t.direction \in {"trim", "reentry"} /\ t.entry_signal_color = "green"

ShortSide(t) ==
    \/ t.direction = "short"
    \/ t.direction \in {"trim", "reentry"} /\ t.entry_signal_color = "red"

Ledger(s) == {s.trades[i] : i \in 1..Len(s.trades)}

\* The records a step appended to the ledger.
Appended == {sim'.trades[i] : i \in (Len(sim.trades) + 1)..Len(sim'.trades)}

\* The step processed a bar (and did not skip it for a BTC crash).
\* extract_metrics: the counts it takes from a ledger by status and exit reason
extract_metrics(trades) ==
    LET closed == {i \in 1..Len(trades) : trades[i].status = "closed"}
        opens == {i \in 1..Len(trades) : trades[i].status = "open"}
        trailing_stop_closes ==
            {i \in closed : Get(trades[i], "exit_signal_reason", "none") = "trailing_stop"}
    IN  [open_trades |-> Cardinality(opens),
         trailing_stop_closes |-> Cardinality(trailing_stop_closes)]

BarStep == phase' = "loop" /\ sim'.bar_idx = sim.bar_idx + 1 /\ ~sim'.skipped_bar

----------------------------------------------------------------------------
(* C1 *)

ShortsOnlyTrailing(config) ==
    Get(config, "trailing_stop_short", FALSE) /\ ~Get(config, "trailing_stop_long", FALSE)

\* The retrace condition of a trailing stop, from the configured thresholds.
Retraced(peak, current, config) ==
    /\ RGe(peak, T(Get(config, "trailing_stop_activation_pct", 50)))
    /\ RGe(RSub(peak, current), T(Get(config, "trailing_stop_trail_pct", 25)))

\* C1: with the trailing stop enabled for shorts only (trailing_stop_short true,
\* trailing_stop_long false), no ledger record of a long position carries exit
\* reason trailing_stop, whatever the bar sequence.
C1_LongNeverTrailingStop ==
    ShortsOnlyTrailing(cfg) =>
        \A t \in Ledger(sim) : LongSide(t) => ExitReason(t) # "trailing_stop"

\* A long held, under a shorts-only trailing stop, on a bar where its profit has
\* peaked above the activation threshold and retraced by the trail distance.
C1_Witness ==
    /\ ShortsOnlyTrailing(cfg)
    /\ sim.open_long # None
    /\ sim.open_long.entry_bar_index < sim.bar_idx
    /\ Retraced(hist.long_peak, PctUp(sim.open_long.entry_price, row.close), cfg)

----------------------------------------------------------------------------
(* C2 *)

ShortClosedWith(reason) ==
    \E t \in Appended :
        t.direction = "short" /\ IsClosed(t) /\ ExitReason(t) = reason

\* The bar's signal after the stop-loss evaluation, before the trailing stop.
SignalAfterStops ==
    EvaluateBar([sim EXCEPT !.bar_idx = @ + 1], row', cfg).color

\* Peak profit of the open short since entry, this bar included, and the test
\* "peak >= activation and peak - current >= trail".
ShortRetracedOnBar ==
    LET current == PctDown(sim.open_short.entry_price, row'.close)
        peak == IF RGt(current, hist.short_peak) THEN current ELSE hist.short_peak
    IN  Retraced(peak, current, cfg)

C2_Case ==
    /\ BarStep
    /\ Get(cfg, "trailing_stop_short", FALSE)
    /\ sim.open_short # None
    /\ SignalAfterStops # "green"

----------------------------------------------------------------------------
(* C3 *)

StopReasons == {"atr_stop_loss", "stop_loss"}

\* The bar of the step is a qualifying entry cross, judged with no open position.
QualifyingCross(color) ==
    evaluate_signal(row', None, cfg, sim.bar_idx + 1)[1] = color
    /\ IF color = "red" THEN row'.ema_crossed_down ELSE row'.ema_crossed_up

\* A long past its grace period on a bar that meets its stop-loss condition and
\* is a qualifying bearish cross; the mirror image for a short.
C3_LongCase ==
    /\ BarStep /\ sim.open_long # None
    /\ OverridesActive(sim.open_long, cfg, sim.bar_idx + 1)
    /\ StopLossReason(PctDown(sim.open_long.entry_price, row'.close),
                      row'.atr_pct, cfg) # "none"
    /\ QualifyingCross("red")

C3_ShortCase ==
    /\ BarStep /\ sim.open_short # None
    /\ OverridesActive(sim.open_short, cfg, sim.bar_idx + 1)
    /\ StopLossReason(PctUp(sim.open_short.entry_price, row'.close),
                      row'.atr_pct, cfg) # "none"
    /\ QualifyingCross("green")

ClosedWithStop(direction) ==
    \E t \in Appended :
        t.direction = direction /\ IsClosed(t) /\ ExitReason(t) \in StopReasons

\* C3: for an open position of either direction whose grace period has elapsed,
\* on any bar that satisfies both its stop-loss condition and an opposing
\* qualifying entry cross, the position's close record carries the stop-loss
\* reason (atr_stop_loss or stop_loss), not the crossover reason.
C3_StopReasonWins ==
    [][ /\ C3_LongCase => ClosedWithStop("long")
        /\ C3_ShortCase => ClosedWithStop("short") ]_vars

\* The long half of C3, which the engine does satisfy.
C3_LongStopReasonWins == [][ C3_LongCase => ClosedWithStop("long") ]_vars

\* A short past its grace period closed on a stop-and-cross bar with the
\* crossover reason, and a long opened on that same bar.
C3_ShortClosedByCross ==
    /\ sim.open_long # None /\ sim.open_long.entry_bar_index = sim.bar_idx
    /\ \E t \in Ledger(sim) :
          /\ t.direction = "short" /\ IsClosed(t)
          /\ t.exit_date = sim.bar_idx
          /\ ExitReason(t) = "ema_cross_up"
          /\ sim.bar_idx - t.entry_bar_index >= Get(cfg, "grace_period_days", 0)
          /\ StopLossReason(PctUp(t.entry_price, row.close), row.atr_pct, cfg) # "none"

----------------------------------------------------------------------------
(* C4 *)

\* The position kinds and the local that holds the open position of each.
Slots ==
    [ long |-> "open_long", short |-> "open_short",
      bb_long |-> "bb_open_long", bb_short |-> "bb_open_short",
      bb2_long |-> "bb2_open_long", bb2_short |-> "bb2_open_short" ]

\* Number of closed ledger records of a kind.
RECURSIVE ClosedCount(_, _, _)
ClosedCount(trades, kind, n) ==
    IF n = 0 THEN 0
    ELSE ClosedCount(trades, kind, n - 1)
         + (IF trades[n].direction = kind /\ IsClosed(trades[n]) THEN 1 ELSE 0)

\* Positions of a kind opened so far and not yet closed.
OpenCount(s, kind) == s.opened[kind] - ClosedCount(s.trades, kind, Len(s.trades))

\* C4: at most one position of each kind is open after every bar, and a position
\* of a kind is opened only when none of that kind is open: a step opens at most
\* one, and only if none was open before the bar or that one was closed, with a
\* ledger record, earlier on the bar.
C4_OnePositionPerKind ==
    [][ \A kind \in DOMAIN Slots :
          /\ OpenCount(sim', kind) \in {0, 1}
          /\ OpenCount(sim', kind) = 1 <=> sim'[Slots[kind]] # None
          /\ sim'.opened[kind] # sim.opened[kind] =>
                /\ sim'.opened[kind] = sim.opened[kind] + 1
                /\ \/ sim[Slots[kind]] = None
                   \/ \E t \in Appended :
                         /\ t.direction = kind /\ IsClosed(t)
                         /\ t.entry_bar_index = sim[Slots[kind]].entry_bar_index ]_vars

\* A band position opened for the second time, after the first of its kind was
\* closed, while a position of another kind is open as well.
C4_Witness ==
    \E kind \in {"bb_long", "bb_short", "bb2_long", "bb2_short"} :
        /\ sim.opened[kind] >= 2 /\ sim[Slots[kind]] # None
        /\ \E other \in DOMAIN Slots \ {kind} : sim[Slots[other]] # None

----------------------------------------------------------------------------
(* C5 *)

\* Sum of the fractions trimmed from the position of a side entered on a date.
RECURSIVE TrimmedSum(_, _, _, _)
TrimmedSum(trades, color, entry_date, n) ==
    IF n = 0 THEN 0
    ELSE TrimmedSum(trades, color, entry_date, n - 1)
         + (IF /\ trades[n].direction = "trim"
               /\ trades[n].entry_signal_color = color
               /\ trades[n].entry_date = entry_date
            THEN trades[n].trim_frac ELSE 0)

PrimaryEntries(s, color) ==
    {t.entry_date : t \in {u \in Ledger(s) : u.direction = "trim"
                                             /\ u.entry_signal_color = color}}

\* C5: for every primary position, under any sequence of ladder, oscillator and
\* velocity trims in either trim mode, the fractions trimmed from it sum to at
\* most 1.0 and its remaining fraction is never negative.
C5_TrimsBounded ==
    /\ \A color \in {"green", "red"} :
          \A d \in PrimaryEntries(sim, color) :
              TrimmedSum(sim.trades, color, d, Len(sim.trades)) <= 10000
    /\ sim.long_remaining_frac >= 0
    /\ sim.short_remaining_frac >= 0
    /\ \A t \in Ledger(sim) :
          t.direction \in {"long", "short"} => t.remaining_pct >= 0

\* A position trimmed by a ladder level and by oscillator trims until nothing
\* remains of it.
C5_Witness ==
    \E color \in {"green", "red"} :
        \E d \in PrimaryEntries(sim, color) :
            /\ TrimmedSum(sim.trades, color, d, Len(sim.trades)) = 10000
            /\ \E t \in Ledger(sim) :
                  t.direction = "trim" /\ t.entry_date = d
                  /\ t.exit_signal_reason = "ladder_15pct"

----------------------------------------------------------------------------
(* apply_circuit_breaker *)

RAdd(a, b) == Rat(a.n * b.d + b.n * a.d, a.d * b.d)

\* The assets of the portfolio, in the iteration order of all_asset_trades.
AssetOrder == <<"a", "b">>

\* "9999-12-31", the exit date assumed for a record without one.
FarFuture == 99991231

\* A date missing from an asset's DataFrame index.
Missing == 0

IsSupplementary(direction) ==
    direction \in {"trim", "dca_entry", "reentry",
                   "bb_long", "bb_short", "bb2_long", "bb2_short"}

\* Is this trade open on this date?
CBIsOpen(t, date) ==
    /\ ~IsSupplementary(t.direction)
    /\ t.entry_date <= date
    /\ date <= (IF t.exit_date = NoneDate THEN FarFuture ELSE t.exit_date)
    /\ t.direction \in {"long", "short"}

CBUnrealized(t, current_price) ==
    IF t.direction = "long" THEN PctUp(t.entry_price, current_price)
    ELSE PctDown(t.entry_price, current_price)

\* open_positions of one date, as <<asset, index in its ledger>>, assets from
\* the k-th on.
RECURSIVE CBOpenPositions(_, _, _, _)
CBOpenPositions(trades, dfs, date, k) ==
    IF k > Len(AssetOrder) THEN <<>>
    ELSE LET cg_id == AssetOrder[k]
             mine == IF dfs[cg_id][date] = Missing THEN <<>>
                     ELSE SelectSeq([i \in 1..Len(trades[cg_id]) |-> <<cg_id, i>>],
                                    LAMBDA p : CBIsOpen(trades[p[1]][p[2]], date))
         IN  mine \o CBOpenPositions(trades, dfs, date, k + 1)

\* total_unrealized_pct: the sum of unrealized * remaining over open_positions.
RECURSIVE CBTotal(_, _, _, _, _)
CBTotal(trades, dfs, date, open_positions, n) ==
    IF n = 0 THEN Zero
    ELSE LET p == open_positions[n]
             t == trades[p[1]][p[2]]
             u == CBUnrealized(t, dfs[p[1]][date])
         IN  RAdd(CBTotal(trades, dfs, date, open_positions, n - 1),
                  Rat(u.n * Get(t, "remaining_pct", 1000), u.d * 1000))

CBTrips(open_positions, total, config) ==
    /\ Len(open_positions) > 0
    /\ RLe(total, T(Get(config, "circuit_breaker_pct", -100)))

\* Faulty variant of the force-close: the ledger's own exit price is kept.
CBForceClose_KeepsExitPrice(t, date, current_price) ==
    LET remaining == Get(t, "remaining_pct", 1000)
        pnl_pct == RoundPct(CBUnrealized(t, current_price))
    IN  Merge(t,
        [ exit_date |-> date,
          exit_signal_color |-> IF t.direction = "long" THEN "red" ELSE "green",
          exit_signal_reason |-> "circuit_breaker",
          pnl_pct |-> pnl_pct,
          pnl_usd |-> PnlUsdOfRounded(remaining * 10, pnl_pct),
          remaining_pct |-> remaining, status |-> "closed" ])

\* The in-place force-close of one trade.
CBForceClose(t, date, current_price) ==
    LET remaining == Get(t, "remaining_pct", 1000)
        pnl_pct == RoundPct(CBUnrealized(t, current_price))
    IN  Merge(t,
        [ exit_date |-> date, exit_price |-> Round2(current_price),
          exit_signal_color |-> IF t.direction = "long" THEN "red" ELSE "green",
          exit_signal_reason |-> "circuit_breaker",
          pnl_pct |-> pnl_pct,
          pnl_usd |-> PnlUsdOfRounded(remaining * 10, pnl_pct),
          remaining_pct |-> remaining, status |-> "closed" ])

\* Faulty variant of the loop test: the walk goes on after a trip.
CBLoopContinues_NoBreak(c) == c.idx <= Len(c.dates)

\* `for date in all_dates_sorted: if tripped: break`
CBLoopContinues(c) == ~c.tripped /\ c.idx <= Len(c.dates)

CBEnabled(c) == Get(c.config, "portfolio_circuit_breaker", FALSE)

\* One iteration of the date loop.
CBDate ==
    /\ cb.phase = "loop" /\ CBEnabled(cb) /\ CBLoopContinues(cb)
    /\ LET date == cb.dates[cb.idx]
           open_positions == CBOpenPositions(cb.trades, cb.dfs, date, 1)
           total == CBTotal(cb.trades, cb.dfs, date, open_positions,
                            Len(open_positions))
           trip == CBTrips(open_positions, total, cb.config)
           hit(cg_id, i) == \E n \in 1..Len(open_positions) :
                                open_positions[n] = <<cg_id, i>>
       IN  cb' = [cb EXCEPT
                  !.idx = @ + 1,
                  !.evaluated = Append(@, date),
                  !.tripped = trip,
                  !.trip_date = IF trip THEN date ELSE @,
                  !.trades = IF trip
                             THEN [cg_id \in DOMAIN cb.trades |->
                                    [i \in 1..Len(cb.trades[cg_id]) |->
                                       IF hit(cg_id, i)
                                       THEN CBForceClose(cb.trades[cg_id][i], date,
                                                         cb.dfs[cg_id][date])
                                       ELSE cb.trades[cg_id][i]]]
                             ELSE @]
    /\ UNCHANGED <<simVars, pool, lev, series>>

\* The function returns: the breaker is disabled, or the loop has ended.
CBReturn ==
    /\ cb.phase = "loop"
    /\ ~(CBEnabled(cb) /\ CBLoopContinues(cb))
    /\ cb' = [cb EXCEPT !.phase = "done"]
    /\ UNCHANGED <<simVars, pool, lev, series>>

\* Inputs of the breaker: per-asset ledgers as simulate_trades returns them for
\* the asset's closes (entry and exit prices are the closes of those dates).
MaxDates == 3

Position(direction, entry_date, df) ==
    [ direction |-> direction, entry_date |-> entry_date,
      entry_price |-> Round2(df[entry_date]),
      entry_signal_color |-> IF direction = "long" THEN "green" ELSE "red",
      entry_signal_reason |->
          IF direction = "long" THEN "ema_cross_up" ELSE "ema_cross_down",
      entry_bar_index |-> entry_date - 1 ]

PositionPct(pos, price) ==
    RoundPct(IF pos.direction = "long" THEN PctUp(pos.entry_price, price)
             ELSE PctDown(pos.entry_price, price))

ClosedAt(pos, exit_date, df, reason, remaining) ==
    ClosedPrimary(pos, exit_date, df[exit_date],
                  IF pos.direction = "long" THEN "red" ELSE "green", reason,
                  PositionPct(pos, df[exit_date]), remaining)

StillOpen(pos, last_price, remaining) ==
    OpenPrimary(pos, last_price, PositionPct(pos, last_price), remaining)

LastClose(df) == df[CHOOSE d \in DOMAIN df :
                       df[d] # Missing /\ \A e \in DOMAIN df : e > d => df[e] = Missing]

\* Ledger shapes: a long still open; a long closed on day 2 and the short that
\* replaced it; a long trimmed by half and closed on day 3; a short still open;
\* a long entered on day 2 and closed on day 3; a long entered on day 3 and
\* still open; a long trimmed by half on day 3 and still open; a short
\* stopped out on day 2 and the long that followed it; a band trade only.
LedgerOf(shape, df) ==
    CASE shape = "long_open" ->
           << StillOpen(Position("long", 1, df), LastClose(df), 10000) >>
      [] shape = "long_then_short" ->
           << ClosedAt(Position("long", 1, df), 2, df, "ema_cross_down", 10000),
              StillOpen(Position("short", 2, df), LastClose(df), 10000) >>
      [] shape = "trimmed_long" ->
           << TrimRecord(Position("long", 1, df), "green", "ema_cross_up", 2,
                         df[2], "yellow", "strong_take_profit",
                         PositionPct(Position("long", 1, df), df[2]), 0, 5000),
              ClosedAt(Position("long", 1, df), 3, df, "trend_break", 5000) >>
      [] shape = "short_open" ->
           << StillOpen(Position("short", 1, df), LastClose(df), 10000) >>
      [] shape = "late_long" ->
           << ClosedAt(Position("long", 2, df), 3, df, "trend_break", 10000) >>
      [] shape = "last_long" ->
           << StillOpen(Position("long", 3, df), LastClose(df), 10000) >>
      [] shape = "late_trim" ->
           << TrimRecord(Position("long", 1, df), "green", "ema_cross_up", 3,
                         df[3], "yellow", "strong_take_profit",
                         PositionPct(Position("long", 1, df), df[3]), 0, 5000),
              StillOpen(Position("long", 1, df), LastClose(df), 5000) >>
      [] shape = "short_stopped" ->
           << ClosedAt(Position("short", 1, df), 2, df, "stop_loss", 10000),
              ClosedAt(Position("long", 2, df), 3, df, "ema_cross_down", 10000) >>
      [] shape = "band_only" ->
           << Merge(Position("long", 1, df),
                    [ direction |-> "bb_long", exit_date |-> 2,
                      exit_price |-> df[2], exit_signal_color |-> "grey",
                      exit_signal_reason |-> "bb_expiry", pnl_pct |-> 0,
                      pnl_usd |-> 0, status |-> "closed" ]) >>

\* The dates a ledger shape needs in its asset's DataFrame.
DatesOf(shape) ==
    CASE shape \in {"long_open", "short_open"} -> {1}
      [] shape \in {"long_then_short", "band_only"} -> {1, 2}
      [] shape = "short_stopped" -> {1, 2, 3}
      [] shape \in {"trimmed_long", "late_trim"} -> {1, 2, 3}
      [] shape = "late_long" -> {2, 3}
      [] shape = "last_long" -> {3}

\* sorted(all_dates): the union of the assets' index dates, ascending.
RECURSIVE SortedDates(_)
SortedDates(S) ==
    IF S = {} THEN <<>>
    ELSE LET m == CHOOSE x \in S : \A y \in S : x <= y
         IN  <<m>> \o SortedDates(S \ {m})

AllDates(dfs) ==
    SortedDates({d \in 1..MaxDates : \E cg_id \in DOMAIN dfs : dfs[cg_id][d] # Missing})

InitCB ==
    /\ series = Idle
    /\ cfg = Idle /\ sim = Idle /\ row = NoRow /\ phase = "idle"
    /\ cfgB = Idle /\ simB = Idle /\ family = "portfolio" /\ hist = InitHist
    /\ ev = Idle
    /\ pool = Idle /\ lev = Idle
    /\ \E config \in {IMPROVED_CONFIG, SIGNAL_CONFIG},
          dfa \in [1..MaxDates -> {10000, 9400, 9000}],
          dfb \in [1..MaxDates -> {10000, 9400, Missing}],
          sa \in {"long_open", "long_then_short", "trimmed_long", "late_trim"},
          sb \in {"short_open", "late_long", "band_only", "last_long"} :
          /\ \A d \in DatesOf(sb) : dfb[d] # Missing
          /\ config = SIGNAL_CONFIG => dfa = [d \in 1..MaxDates |-> 10000]
          /\ LET dfs == [a |-> dfa, b |-> dfb]
                 trades == [a |-> LedgerOf(sa, dfa), b |-> LedgerOf(sb, dfb)]
             IN  cb = [ phase |-> "loop", config |-> config, dfs |-> dfs,
                        input |-> trades, trades |-> trades,
                        dates |-> AllDates(dfs), idx |-> 1,
                        tripped |-> FALSE, trip_date |-> NoneDate,
                        evaluated |-> <<>> ]

NextCB == CBDate \/ CBReturn

SpecCB == InitCB /\ [][NextCB]_vars

----------------------------------------------------------------------------
(* C6 *)

\* The primary positions of the input ledgers open on a date, as the claim
\* words it: a long or short whose asset has the date and whose entry date is
\* not after it and exit date (if any) not before it.
C6_OpenOn(date) ==
    {p \in {"a", "b"} \X (1..2) :
        /\ p[2] <= Len(cb.input[p[1]])
        /\ cb.dfs[p[1]][date] # Missing
        /\ LET t == cb.input[p[1]][p[2]]
           IN  /\ t.direction \in {"long", "short"}
               /\ t.entry_date <= date
               /\ t.exit_date = NoneDate \/ date <= t.exit_date}

\* Unrealized P&L of a position on a date, weighted by its remaining fraction,
\* in hundred-thousandths of a percent of its entry price.
C6_Weighted(p, date) ==
    LET t == cb.input[p[1]][p[2]]
        price == cb.dfs[p[1]][date]
        move == IF t.direction = "long" THEN price - t.entry_price
                ELSE t.entry_price - price
    IN  IF p \in C6_OpenOn(date)
        THEN Rat(move * t.remaining_pct, t.entry_price * 10)
        ELSE Zero

C6_ShouldTrip(date) ==
    /\ C6_OpenOn(date) # {}
    /\ LET total == RAdd(RAdd(C6_Weighted(<<"a", 1>>, date),
                              C6_Weighted(<<"a", 2>>, date)),
                         RAdd(C6_Weighted(<<"b", 1>>, date),
                              C6_Weighted(<<"b", 2>>, date)))
       IN  total.n * 10 <= cb.config.circuit_breaker_pct * total.d

C6_DatesWalked == {cb.dates[i] : i \in 1..Len(cb.dates)}

\* C6: apply_circuit_breaker, walking dates in ascending order, force-closes
\* positions on the first date on which at least one primary position is open
\* and the fraction-weighted sum of unrealized P&L is <= the threshold, on no
\* earlier date, and at most once per run: no date after the trip date is
\* evaluated.
C6_FirstBreachOnly ==
    cb.phase \in {"loop", "done"} /\ CBEnabled(cb) =>
        /\ cb.tripped =>
              /\ C6_ShouldTrip(cb.trip_date)
              /\ \A d \in C6_DatesWalked : d < cb.trip_date => ~C6_ShouldTrip(d)
              /\ \A i \in 1..Len(cb.evaluated) : cb.evaluated[i] <= cb.trip_date
        /\ cb.phase = "done" /\ ~cb.tripped =>
              \A d \in C6_DatesWalked : ~C6_ShouldTrip(d)
        /\ \A cg_id \in {"a", "b"} :
              \A i \in 1..Len(cb.trades[cg_id]) :
                  IF cb.tripped /\ <<cg_id, i>> \in C6_OpenOn(cb.trip_date)
                  THEN /\ cb.trades[cg_id][i].exit_date = cb.trip_date
                       /\ cb.trades[cg_id][i].status = "closed"
                       /\ ExitReason(cb.trades[cg_id][i]) = "circuit_breaker"
                  ELSE cb.trades[cg_id][i] = cb.input[cg_id][i]

\* The breaker tripped on the second date, exactly at the threshold, passing
\* over a first date on which a position was open, and dates remain after it.
C6_Witness ==
    /\ cb.phase = "done" /\ cb.tripped /\ cb.trip_date = 2
    /\ C6_OpenOn(1) # {}
    /\ Len(cb.dates) > 2
    /\ \E cg_id \in {"a", "b"} :
          \E i \in 1..Len(cb.trades[cg_id]) :
              /\ ExitReason(cb.trades[cg_id][i]) = "circuit_breaker"
              /\ cb.trades[cg_id][i].pnl_pct = -1000

----------------------------------------------------------------------------
(* simulate_compounding_single_pool *)

\* starting_capital = 1000.0, in cents.
starting_capital == 100000

\* One entry of events: a primary record with its sort keys.
EventOf(cg_id, t) ==
    [ cg_id |-> cg_id, trade |-> t, entry_date |-> t.entry_date,
      exit_date |-> IF t.exit_date = NoneDate THEN FarFuture ELSE t.exit_date,
      pnl_pct |-> t.pnl_pct, remaining_pct |-> Get(t, "remaining_pct", 1000),
      status |-> t.status, direction |-> t.direction ]

\* The events in collection order: assets in dictionary order, each asset's
\* ledger in order, supplementary records left out.
CollectEvents(all_asset_trades) ==
    LET of(cg_id) ==
            LET kept == SelectSeq(all_asset_trades[cg_id],
                                  LAMBDA t : ~IsSupplementary(t.direction))
            IN  [i \in 1..Len(kept) |-> EventOf(cg_id, kept[i])]
    IN  of(AssetOrder[1]) \o of(AssetOrder[2])

\* The sort key (entry_date, exit_date), compared as a tuple.
EventBefore(e, f) ==
    \/ e.entry_date < f.entry_date
    \/ e.entry_date = f.entry_date /\ e.exit_date < f.exit_date

\* events.sort(key=...): a stable sort, the first least element first.
RECURSIVE SortEvents(_)
SortEvents(events) ==
    IF events = <<>> THEN <<>>
    ELSE LET i == CHOOSE k \in 1..Len(events) :
                      \A m \in 1..Len(events) :
                          IF m < k THEN EventBefore(events[k], events[m])
                          ELSE ~EventBefore(events[m], events[k])
         IN  <<events[i]>> \o
             SortEvents(SubSeq(events, 1, i - 1) \o
                        SubSeq(events, i + 1, Len(events)))

\* all_trims: every trim record with its asset, in collection order.  The
\* sort by exit date that follows only orders the terms of a sum.
AllTrims(all_asset_trades) ==
    LET of(cg_id) ==
            LET kept == SelectSeq(all_asset_trades[cg_id],
                                  LAMBDA t : t.direction = "trim")
            IN  [i \in 1..Len(kept) |-> [cg_id |-> cg_id, trade |-> kept[i]]]
    IN  of(AssetOrder[1]) \o of(AssetOrder[2])

\* round(frac * pct / 100 * position_size, 2) in cents: frac_pct in tenths of
\* a percent, pct a rational percent, position_size in cents.
CompoundPnl(frac_pct, pct, position_size) ==
    LET f == Rat(frac_pct * pct.n, 100000 * pct.d)
        \* f.n * position_size / f.d with the whole multiples of f.d taken
        \* out first (an even number of them, so ties round as before)
        multiples == f.n * (position_size \div f.d)
        whole == 2 * (multiples \div 2)
        part == f.n * (position_size % f.d) + (multiples - whole) * f.d
    IN  whole + RoundDiv(part, f.d)

\* trim_pnl: the trims of the event's asset that share its entry date, from
\* the i-th on, each return multiplied by leverage (tenths; 10 is 1.0).
RECURSIVE TrimPnl(_, _, _, _, _)
TrimPnl(all_trims, event, position_size, leverage, i) ==
    IF i > Len(all_trims) THEN 0
    ELSE LET trim == all_trims[i].trade
             rest == TrimPnl(all_trims, event, position_size, leverage, i + 1)
         IN  IF all_trims[i].cg_id # event.cg_id THEN rest
             ELSE IF trim.entry_date # event.entry_date THEN rest
             ELSE CompoundPnl(Get(trim, "trim_pct", 0),
                              Rat(Get(trim, "pnl_pct", 0) * leverage, 1000),
                              position_size) + rest

\* if deployed_until is not None and entry_date < deployed_until
PoolSkip(deployed_until, entry_date) ==
    deployed_until # NoneDate /\ entry_date < deployed_until

PoolSkipped_Uncounted(p) == [p EXCEPT !.idx = @ + 1]

\* skipped += 1; continue
PoolSkipped(p) == [p EXCEPT !.idx = @ + 1, !.skipped = @ + 1]

\* ((peak_capital - capital) / peak_capital) * 100
Drawdown(peak_capital, capital) == Rat((peak_capital - capital) * 100, peak_capital)

\* One iteration of `for event in events`.
PoolEvent ==
    /\ pool.phase = "loop" /\ pool.idx <= Len(pool.events)
    /\ LET event == pool.events[pool.idx]
           position_size == pool.capital
           pnl_usd == CompoundPnl(event.remaining_pct, Rat(event.pnl_pct, 100),
                                  position_size)
           trim_pnl == IF event.status \in {"closed", "open"}
                       THEN TrimPnl(pool.all_trims, event, position_size, 10, 1)
                       ELSE 0
           total_trade_pnl == pnl_usd + trim_pnl
           capital == pool.capital + total_trade_pnl
           peak_capital == Max(pool.peak_capital, capital)
           drawdown == Drawdown(peak_capital, capital)
           executed == Append(pool.result_trades,
                          Merge(event.trade,
                                [ position_size |-> position_size,
                                  pnl_usd_compound |-> total_trade_pnl,
                                  capital_before |-> pool.capital ]))
       IN  pool' =
             IF PoolSkip(pool.deployed_until, event.entry_date)
             THEN PoolSkipped(pool)
             ELSE IF event.status = "closed"
             THEN [pool EXCEPT
                     !.idx = @ + 1, !.result_trades = executed,
                     !.capital = capital, !.peak_capital = peak_capital,
                     !.max_drawdown_pct =
                         IF RGt(drawdown, @) THEN drawdown ELSE @,
                     !.deployed_until = NoneDate,
                     !.deployed_cg_id = "none"]
             ELSE [pool EXCEPT
                     !.idx = @ + 1, !.result_trades = executed,
                     !.deployed_until = FarFuture,
                     !.deployed_cg_id = event.cg_id]
    /\ UNCHANGED <<simVars, cb, lev, series>>

\* The return after the last event.
PoolReturn ==
    /\ pool.phase = "loop" /\ pool.idx > Len(pool.events)
    /\ pool' = [pool EXCEPT
                  !.phase = "done",
                  !.result = [ trades |-> pool.result_trades,
                               final_capital |-> pool.capital,
                               starting_capital |-> starting_capital,
                               peak_capital |-> pool.peak_capital,
                               max_drawdown_pct |->
                                   RoundDiv(pool.max_drawdown_pct.n * 10,
                                            pool.max_drawdown_pct.d),
                               skipped_trades |-> pool.skipped,
                               total_return_pct |->
                                   RoundDiv((pool.capital - starting_capital) * 1000,
                                            starting_capital) ]]
    /\ UNCHANGED <<simVars, cb, lev, series>>

\* The closes the portfolio post-processors' ledgers are built from.
PoolPrices == {10000, 9400, 9000}

InitPool ==
    /\ series = Idle
    /\ cfg = Idle /\ sim = Idle /\ row = NoRow /\ phase = "idle"
    /\ cfgB = Idle /\ simB = Idle /\ family = "portfolio" /\ hist = InitHist
    /\ ev = Idle
    /\ cb = Idle /\ lev = Idle
    /\ \E dfa \in [1..MaxDates -> PoolPrices],
          dfb \in [1..MaxDates -> PoolPrices],
          sa \in {"long_open", "long_then_short", "trimmed_long"},
          sb \in {"short_open", "late_long", "band_only", "last_long"} :
          LET trades == [a |-> LedgerOf(sa, dfa), b |-> LedgerOf(sb, dfb)]
          IN  pool = [ phase |-> "loop", input |-> trades,
                       events |-> SortEvents(CollectEvents(trades)),
                       all_trims |-> AllTrims(trades), idx |-> 1,
                       capital |-> starting_capital,
                       peak_capital |-> starting_capital,
                       max_drawdown_pct |-> Zero,
                       deployed_until |-> NoneDate, deployed_cg_id |-> "none",
                       result_trades |-> <<>>, skipped |-> 0,
                       result |-> None ]

NextPool == PoolEvent \/ PoolReturn

SpecPool == InitPool /\ [][NextPool]_vars

----------------------------------------------------------------------------
(* C7, C8 *)

\* The date an executed trade gives the capital back: its exit date, or the
\* far future while it is still open.
C7_HeldUntil(t) == IF t.exit_date = NoneDate THEN FarFuture ELSE t.exit_date

\* C7: in the single-pool allocator at most one trade holds the capital at any
\* time: no executed trade is entered before the exit date of a trade executed
\* before it, every such candidate being skipped and counted.
C7_OneTradeHoldsCapital ==
    pool.phase \in {"loop", "done"} =>
        \A i, j \in 1..Len(pool.result_trades) :
            i < j => pool.result_trades[j].entry_date
                        >= C7_HeldUntil(pool.result_trades[i])

\* Two closed trades of different assets were both executed although the
\* second was entered while the first still held the whole capital, and
\* nothing was skipped.
C7_Overlap ==
    /\ pool.phase = "done" /\ pool.skipped = 0
    /\ Len(pool.result_trades) = 2
    /\ pool.result_trades[1].status = "closed"
    /\ pool.result_trades[2].entry_date < pool.result_trades[1].exit_date
    /\ pool.result_trades[2].position_size
          = pool.result_trades[1].position_size
            + pool.result_trades[1].pnl_usd_compound

\* What the code does keep: an entry is skipped exactly while a trade that is
\* still open at the end of its ledger holds the capital.
C7_OpenTradeBlocks ==
    pool.phase \in {"loop", "done"} =>
        \A i, j \in 1..Len(pool.result_trades) :
            i < j => pool.result_trades[i].status = "closed"

\* The primary (long/short) records of the input ledgers.
C8_Candidates ==
    {p \in {"a", "b"} \X (1..3) :
        /\ p[2] <= Len(pool.input[p[1]])
        /\ pool.input[p[1]][p[2]].direction \in {"long", "short"}}

\* C8: when simulate_compounding_single_pool returns, the number of trades in
\* its result plus skipped_trades equals the number of primary (long/short)
\* records in the input; during the loop the two count the events walked.
C8_ExecutedPlusSkipped ==
    /\ pool.phase = "loop" =>
          Len(pool.result_trades) + pool.skipped = pool.idx - 1
    /\ pool.phase = "done" =>
          Len(pool.result.trades) + pool.result.skipped_trades
              = Cardinality(C8_Candidates)

\* A run that returned with two trades executed and one skipped.
C8_Witness ==
    /\ pool.phase = "done"
    /\ Len(pool.result.trades) = 2
    /\ pool.result.skipped_trades = 1
    /\ Cardinality(C8_Candidates) = 3

----------------------------------------------------------------------------
(* simulate_leverage_scenario *)

\* Leverage multipliers in tenths (30 is 3.0x).
LEVERAGE_CONFIGS ==
    [ spot_only |-> [ name |-> "Spot Only (1x)", tier_a_leverage |-> 10,
                      tier_b_leverage |-> 10, tier_c_leverage |-> 10,
                      bb_leverage |-> 10 ],
      tiered |-> [ name |-> "Confidence-Tiered (1-3x)", tier_a_leverage |-> 30,
                   tier_b_leverage |-> 10, tier_c_leverage |-> 5,
                   bb_leverage |-> 5, max_portfolio_leverage |-> 30,
                   leveraged_stop_mult |-> 5 ],
      flat_2x |-> [ name |-> "Flat 2x Leverage", tier_a_leverage |-> 20,
                    tier_b_leverage |-> 20, tier_c_leverage |-> 20,
                    bb_leverage |-> 10 ] ]

compute_confidence_tier(r, direction, config) ==
    LET adx == Get(r, "adx", 0)
        volume_ratio == Get(r, "volume_ratio", 10)
        atr_pct == Get(r, "atr_pct", NaN)
        rsi == Get(r, "rsi_14", 50)
        rsi_min == IF direction = "long" THEN config.rsi_long_entry_min
                   ELSE config.rsi_short_entry_min
        rsi_max == IF direction = "long" THEN config.rsi_long_entry_max
                   ELSE config.rsi_short_entry_max
        rsi_strong == Abs(2 * rsi - (rsi_min + rsi_max)) < 16
        one(b) == IF b THEN 1 ELSE 0
        strong_signals ==
            one(NGe(adx, 25)) + one(NGe(volume_ratio, 12))
            + one(NLt(atr_pct, 30)) + one(rsi_strong)
        weak_signals ==
            one(NLt(adx, 22)) + one(NLt(volume_ratio, 10))
            + one(NGt(atr_pct, 50))
            + one(~rsi_strong /\ (rsi < rsi_min + 3 \/ rsi > rsi_max - 3))
    IN  IF strong_signals >= 3 /\ weak_signals = 0 THEN "A"
        ELSE IF weak_signals >= 2 THEN "C"
        ELSE "B"

\* The tier of an event: "B" unless the asset has a DataFrame holding the
\* entry date.
TierOf(all_asset_dfs, event, signal_config) ==
    LET df == all_asset_dfs[event.cg_id]
    IN  IF df # None /\ event.entry_date \in DOMAIN df
        THEN compute_confidence_tier(df[event.entry_date], event.direction,
                                     signal_config)
        ELSE "B"

LeverageOf(tier, leverage_config) ==
    IF tier = "A" THEN Get(leverage_config, "tier_a_leverage", 10)
    ELSE IF tier = "C" THEN Get(leverage_config, "tier_c_leverage", 10)
    ELSE Get(leverage_config, "tier_b_leverage", 10)

\* if leveraged_pnl_pct * remaining_frac <= -100
IsLiquidated(event, leverage) ==
    event.pnl_pct * leverage * event.remaining_pct <= -100000000

\* One iteration of `for event in events`.
LevEvent ==
    /\ lev.phase = "loop" /\ lev.idx <= Len(lev.events)
    /\ LET event == lev.events[lev.idx]
           tier == TierOf(lev.dfs, event, lev.signal_config)
           leverage == LeverageOf(tier, lev.leverage_config)
           position_size == lev.capital
           is_liquidated == IsLiquidated(event, leverage)
           pnl_usd == IF is_liquidated THEN -position_size
                      ELSE CompoundPnl(event.remaining_pct,
                                       Rat(event.pnl_pct * leverage, 1000),
                                       position_size)
           trim_pnl == TrimPnl(lev.all_trims, event, position_size, leverage, 1)
           total_trade_pnl == IF ~is_liquidated THEN pnl_usd + trim_pnl
                              ELSE pnl_usd
           capital == Max(lev.capital + total_trade_pnl, 0)
           peak_capital == Max(lev.peak_capital, capital)
           executed == Append(lev.result_trades,
                          Merge(event.trade,
                                [ tier |-> tier, leverage |-> leverage,
                                  position_size |-> position_size,
                                  effective_exposure |->
                                      RoundDiv(position_size * leverage, 10),
                                  pnl_pct_leveraged |->
                                      RoundDiv(event.pnl_pct * leverage, 10),
                                  pnl_usd_leveraged |-> total_trade_pnl,
                                  capital_before |-> lev.capital,
                                  liquidated |-> is_liquidated ]))
           counted == [lev EXCEPT
                         !.idx = @ + 1, !.result_trades = executed,
                         !.tier_counts[tier] = @ + 1,
                         !.liquidations = IF is_liquidated THEN @ + 1 ELSE @]
       IN  lev' =
             IF PoolSkip(lev.deployed_until, event.entry_date)
             THEN PoolSkipped(lev)
             ELSE IF event.status = "closed"
             THEN [counted EXCEPT
                     !.capital = capital, !.peak_capital = peak_capital,
                     !.max_drawdown_pct =
                         IF peak_capital > 0
                            /\ RGt(Drawdown(peak_capital, capital), @)
                         THEN Drawdown(peak_capital, capital) ELSE @,
                     !.deployed_until = NoneDate]
             ELSE [counted EXCEPT !.deployed_until = FarFuture]
    /\ UNCHANGED <<simVars, cb, pool, series>>

\* The return after the last event.
LevReturn ==
    /\ lev.phase = "loop" /\ lev.idx > Len(lev.events)
    /\ lev' = [lev EXCEPT
                 !.phase = "done",
                 !.result = [ name |-> Get(lev.leverage_config, "name", "Unknown"),
                              trades |-> lev.result_trades,
                              starting_capital |-> starting_capital,
                              final_capital |-> lev.capital,
                              peak_capital |-> lev.peak_capital,
                              max_drawdown_pct |->
                                  RoundDiv(lev.max_drawdown_pct.n * 10,
                                           lev.max_drawdown_pct.d),
                              skipped_trades |-> lev.skipped,
                              liquidations |-> lev.liquidations,
                              tier_counts |-> lev.tier_counts,
                              total_return_pct |->
                                  RoundDiv((lev.capital - starting_capital) * 1000,
                                           starting_capital) ]]
    /\ UNCHANGED <<simVars, cb, pool, series>>

\* Indicator readings of an asset's entry rows: aligned, boundary, mixed, or
\* no DataFrame for the asset at all.
EntryRows(quality, df) ==
    CASE quality = "aligned" -> [d \in DOMAIN df |-> make_bar(df[d], NoOver)]
      [] quality = "boundary" ->
           [d \in DOMAIN df |-> make_bar(df[d], [adx |-> 20, volume_ratio |-> 8])]
      [] quality = "mixed" ->
           [d \in DOMAIN df |-> make_bar(df[d], [adx |-> 23, atr_pct |-> 40])]
      [] quality = "absent" -> None

InitLev ==
    /\ series = Idle
    /\ cfg = Idle /\ sim = Idle /\ row = NoRow /\ phase = "idle"
    /\ cfgB = Idle /\ simB = Idle /\ family = "portfolio" /\ hist = InitHist
    /\ ev = Idle
    /\ cb = Idle /\ pool = Idle
    /\ \E dfa \in [1..MaxDates -> {10000, 9400, 3500}],
          dfb \in [1..MaxDates -> {10000, 9400}],
          sa \in {"long_open", "long_then_short", "trimmed_long"},
          sb \in {"short_open", "late_long", "band_only", "last_long"},
          name \in DOMAIN LEVERAGE_CONFIGS,
          quality \in {"aligned", "boundary", "mixed", "absent"} :
          LET trades == [a |-> LedgerOf(sa, dfa), b |-> LedgerOf(sb, dfb)]
          IN  lev = [ phase |-> "loop", input |-> trades,
                      dfs |-> [a |-> EntryRows(quality, dfa),
                               b |-> EntryRows("aligned", dfb)],
                      leverage_config |-> LEVERAGE_CONFIGS[name],
                      signal_config |-> IMPROVED_CONFIG,
                      events |-> SortEvents(CollectEvents(trades)),
                      all_trims |-> AllTrims(trades), idx |-> 1,
                      capital |-> starting_capital,
                      peak_capital |-> starting_capital,
                      max_drawdown_pct |-> Zero,
                      deployed_until |-> NoneDate,
                      result_trades |-> <<>>, skipped |-> 0,
                      liquidations |-> 0,
                      tier_counts |-> [A |-> 0, B |-> 0, C |-> 0],
                      result |-> None ]

NextLev == LevEvent \/ LevReturn

SpecLev == InitLev /\ [][NextLev]_vars

----------------------------------------------------------------------------
(* C9 *)

\* The leveraged loss of an executed trade on the fraction still deployed at
\* its close reaches -100%: pnl_pct * leverage * remaining fraction <= -100.
C9_LossReachesAll(t) ==
    t.pnl_pct * t.leverage * t.remaining_pct <= -100 * 100 * 10 * 1000

\* C9: in the leverage simulator a trade whose leveraged loss on the deployed
\* fraction reaches -100% or worse is flagged liquidated and loses exactly the
\* deployed position size, and after every trade, liquidated or not, capital
\* is not negative and no trade's realized loss exceeds the amount deployed in
\* it.
C9_LossNeverExceedsDeployed ==
    lev.phase \in {"loop", "done"} =>
        /\ lev.capital >= 0
        /\ \A i \in 1..Len(lev.result_trades) :
              LET t == lev.result_trades[i]
              IN  /\ C9_LossReachesAll(t) =>
                        t.liquidated /\ t.pnl_usd_leveraged = -t.position_size
                  /\ t.pnl_usd_leveraged >= -t.position_size

\* The part the code keeps: liquidation is flagged exactly on that test and
\* costs exactly the position, and capital stays at or above zero.
C9_LiquidationExact ==
    lev.phase \in {"loop", "done"} =>
        /\ lev.capital >= 0
        /\ \A i \in 1..Len(lev.result_trades) :
              LET t == lev.result_trades[i]
              IN  /\ t.liquidated <=> C9_LossReachesAll(t)
                  /\ t.liquidated => t.pnl_usd_leveraged = -t.position_size

\* A closed trade that was not flagged liquidated is recorded with a loss
\* larger than the position deployed in it: the loss on the remaining half
\* stays above -100%, the leveraged loss of its trim takes the total below.
C9_UnflaggedWipeout ==
    /\ lev.phase = "done"
    /\ \E i \in 1..Len(lev.result_trades) :
          LET t == lev.result_trades[i]
          IN  /\ t.status = "closed" /\ ~t.liquidated
              /\ t.pnl_usd_leveraged < -t.position_size
              /\ t.remaining_pct = 500 /\ t.leverage = 30
    /\ lev.result.final_capital = 0
    /\ lev.result.liquidations = 0

----------------------------------------------------------------------------
(* run_v6a and run_v5f of test_backtest.py: the two configurations replayed   *)
(* over the same bars                                                         *)

\* A short from $10.00 that gains 6% and gives 2.6% back, a bullish cross, a
\* rally that hits the short's stop or the long's first ladder level with the
\* oscillator overbought, and a bearish cross below.
PairBars ==
    ShortBars \cup
    { make_grey_bar(12200, [rsi_14 |-> 80, ema_9 |-> 12200, ema_21 |-> 11000]),
      make_red_bar(9500, NoOver) }

\* The configuration with both complementary tracks switched off.
WithoutBands(config) ==
    Merge(config, [ rsi_bb_complementary |-> FALSE, bb_improved |-> FALSE ])

\* Band touches, a bullish and a bearish cross, and a rally to the first
\* ladder level with the oscillator overbought.
BandPairBars ==
    BandBars \cup
    { make_red_bar(9500, NoOver),
      make_grey_bar(11600, [rsi_14 |-> 86, ema_9 |-> 11600, ema_21 |-> 11000]) }

V5G_WITH_BB2 == Merge(V5G_NO_BB, [ bb_improved |-> TRUE ])

\* Both crosses with their tranche fills, and a rally to the first ladder
\* level with the oscillator overbought.
StagedPairBars ==
    StagedBars \cup
    { make_grey_bar(11600, [rsi_14 |-> 86, ema_9 |-> 11600, ema_21 |-> 11000]) }

\* The pairs of replays: V6a against V5f, and each configuration with a
\* complementary track against itself without the tracks.
Pairs ==
    [ pair |-> [a |-> V6A_TRAILING_STOP, b |-> V5F_FULL_SUITE, bars |-> PairBars],
      imp_bands |-> [a |-> IMPROVED_CONFIG, b |-> WithoutBands(IMPROVED_CONFIG),
                     bars |-> BandPairBars],
      v5f_bands |-> [a |-> V5F_FULL_SUITE, b |-> WithoutBands(V5F_FULL_SUITE),
                     bars |-> BandPairBars],
      dca_bands |-> [a |-> V5G_WITH_BB2, b |-> V5G_NO_BB, bars |-> BandPairBars],
      same_dca |-> [a |-> V5G_WITH_BB2, b |-> V5G_WITH_BB2, bars |-> StagedPairBars] ]

InitPair ==
    /\ series = Idle
    /\ cb = Idle /\ pool = Idle /\ lev = Idle /\ ev = Idle
    /\ family \in DOMAIN Pairs
    /\ cfg = Pairs[family].a
    /\ cfgB = Pairs[family].b
    /\ sim = InitSim(cfg, TRUE, FALSE)
    /\ simB = InitSim(cfgB, TRUE, FALSE)
    /\ row = NoRow
    /\ phase = "loop"
    /\ hist = InitHist

\* Faulty variant of the replay step: the first run consumes a tranche of the
\* configuration it was given, and the second run reads what is left.
BarPair_ConsumesTranches ==
    /\ phase = "loop"
    /\ sim.bar_idx + 1 < MaxBars
    /\ \E r \in Pairs[family].bars :
          /\ row' = r
          /\ sim' = ProcessBar(sim, r, cfg)
          /\ cfg' = IF sim'.dca_tranche_idx_long > sim.dca_tranche_idx_long
                    THEN Merge(cfg, [dca_tranches |->
                                        Tail(Get(cfg, "dca_tranches", <<0>>))])
                    ELSE cfg
          /\ simB' = ProcessBar(simB, r, IF cfgB = cfg THEN cfg' ELSE cfgB)
    /\ UNCHANGED <<phase, cfgB, family, hist, cb, pool, lev, ev, series>>

\* Both replays take the next bar of the shared series.
BarPair ==
    /\ phase = "loop"
    /\ sim.bar_idx + 1 < MaxBars
    /\ \E r \in Pairs[family].bars :
          /\ row' = r
          /\ sim' = ProcessBar(sim, r, cfg)
          /\ simB' = ProcessBar(simB, r, cfgB)
    /\ UNCHANGED <<cfg, phase, cfgB, family, hist, cb, pool, lev, ev, series>>

FinishPair ==
    /\ phase = "loop"
    /\ sim.bar_idx >= 0
    /\ sim' = [sim EXCEPT !.trades = Flush(sim, row.close, cfg)]
    /\ simB' = [simB EXCEPT !.trades = Flush(simB, row.close, cfgB)]
    /\ phase' = "done"
    /\ UNCHANGED <<cfg, row, cfgB, family, hist, cb, pool, lev, ev, series>>

NextPair == BarPair \/ FinishPair

SpecPair == InitPair /\ [][NextPair]_vars

----------------------------------------------------------------------------
(* C10 *)

\* The long-position records and the trims of long positions of a ledger, in
\* order, reduced to the fields compared.
C10_Longs(s) ==
    LET kept == SelectSeq(s.trades,
                    LAMBDA t : \/ t.direction = "long"
                               \/ /\ t.direction = "trim"
                                  /\ t.entry_signal_color = "green")
    IN  [i \in 1..Len(kept) |->
            [ direction |-> kept[i].direction,
              entry_price |-> kept[i].entry_price,
              exit_price |-> kept[i].exit_price,
              exit_signal_reason |-> Get(kept[i], "exit_signal_reason", "none"),
              pnl_pct |-> kept[i].pnl_pct,
              pnl_usd |-> kept[i].pnl_usd,
              status |-> kept[i].status ]]

\* C10: over the same bars, the long records and the trims of longs produced
\* with the shorts-only trailing stop (V6a) equal, in entry price, exit price,
\* exit reason and P&L, those produced without it (V5f), after every bar and
\* after the final flush.
C10_LongsIdentical ==
    family = "pair" => C10_Longs(sim) = C10_Longs(simB)

\* The two replays did part ways on the short side: V6a closed a short on its
\* trailing stop, V5f closed the same short later and elsewhere, and both
\* ledgers hold a trimmed and closed long opened after that.
C10_Witness ==
    /\ family = "pair" /\ phase = "done"
    /\ \E i \in 1..Len(sim.trades) :
          /\ sim.trades[i].direction = "short"
          /\ Get(sim.trades[i], "exit_signal_reason", "none") = "trailing_stop"
    /\ \A i \in 1..Len(simB.trades) :
          Get(simB.trades[i], "exit_signal_reason", "none") # "trailing_stop"
    /\ \E i, j \in 1..Len(C10_Longs(sim)) :
          /\ C10_Longs(sim)[i].direction = "trim"
          /\ C10_Longs(sim)[j].direction = "long"
          /\ C10_Longs(sim)[j].status = "closed"

----------------------------------------------------------------------------
(* C11 *)

\* C11: after a primary position of a direction closes by any means, that
\* direction's peak-profit high-water mark is zero, and while a position is
\* open the mark never exceeds the best profit that position itself has shown
\* on a bar since its entry, so no peak of an earlier position is carried over.
C11_PeakResetsOnClose ==
    family \in DOMAIN Runs =>
        /\ sim.open_short = None => sim.short_peak_profit = Zero
        /\ sim.open_long = None => sim.long_peak_profit = Zero
        /\ sim.open_short # None => RLe(sim.short_peak_profit, hist.short_peak)
        /\ sim.open_long # None => RLe(sim.long_peak_profit, hist.long_peak)

\* A short was closed on its trailing stop after its mark had passed the
\* activation level, and the short opened after it starts from a zero mark.
C11_Witness ==
    /\ family \in DOMAIN Runs /\ phase = "loop"
    /\ \E i \in 1..Len(sim.trades) :
          /\ sim.trades[i].direction = "short"
          /\ Get(sim.trades[i], "exit_signal_reason", "none") = "trailing_stop"
          /\ sim.open_short # None
          /\ sim.open_short.entry_bar_index > sim.trades[i].exit_date
    /\ sim.short_peak_profit = Zero

----------------------------------------------------------------------------
(* C12 *)

\* C12: at the end of every bar, every open primary position has a remaining
\* fraction strictly greater than 0 and at most 1.
C12_RemainingInUnitRange ==
    (family \in DOMAIN Runs /\ phase = "loop") =>
        /\ sim.open_long # None =>
              sim.long_remaining_frac > 0 /\ sim.long_remaining_frac <= 10000
        /\ sim.open_short # None =>
              sim.short_remaining_frac > 0 /\ sim.short_remaining_frac <= 10000

\* A long whose whole size has been trimmed away is still open at the end of
\* the bar, in a run that takes a single full-size entry.
C12_FullyTrimmedStaysOpen ==
    /\ family \in DOMAIN Runs /\ phase = "loop"
    /\ ~Get(cfg, "dca_enabled", FALSE)
    /\ sim.open_long # None
    /\ sim.long_remaining_frac = 0

----------------------------------------------------------------------------
(* C13 *)

\* The ladder trims recorded in ledger s for the position p at milestone level.
C13_LadderTrims(s, p, level) ==
    { i \in 1..Len(s.trades) :
        /\ s.trades[i].direction = "trim"
        /\ s.trades[i].entry_date = p.entry_date
        /\ s.trades[i].entry_signal_color = p.entry_signal_color
        /\ ExitReason(s.trades[i]) = LadderReason(level) }

\* On this bar the position p, open before the bar with more than 0.1 of it
\* left, is at or past the milestone (profit in percent of the entry price).
C13_Reaches(p, remaining, profit, level) ==
    /\ p # None
    /\ remaining > 1000
    /\ profit * 100 >= level * p.entry_price

\* For one side: a milestone reached with no trim yet gets its trim on this
\* bar, a milestone already trimmed gets none, and no bar trims one twice.
C13_SideOnce(p, remaining, profit, levels) ==
    \A i \in 1..Len(levels) :
        LET before == C13_LadderTrims(sim, p, levels[i])
            after == C13_LadderTrims(sim', p, levels[i])
        IN  C13_Reaches(p, remaining, profit, levels[i]) =>
                /\ Cardinality(after) = 1
                /\ before = {} => \E k \in after : sim'.trades[k].exit_date = sim'.bar_idx

\* A position opened on this bar has no milestone executed.
C13_FreshStart(s) ==
    /\ (s.open_long # None /\ s.open_long.entry_bar_index = s.bar_idx) =>
          s.ladder_trims_long = {}
    /\ (s.open_short # None /\ s.open_short.entry_bar_index = s.bar_idx) =>
          s.ladder_trims_short = {}

\* C13: for every primary position each configured profit-ladder milestone is
\* trimmed exactly once, on the first bar where the position's profit reaches
\* the milestone while more than 0.1 of it remains, and never again; and every
\* newly opened position starts with no milestone executed, whatever closed
\* the previous position.
C13_MilestoneOnce ==
    [][ (BarStep /\ Get(cfg, "profit_ladder_enabled", FALSE)) =>
          /\ C13_FreshStart(sim')
          /\ C13_SideOnce(sim.open_long, sim.long_remaining_frac,
                          row'.close - sim.open_long.entry_price,
                          profit_ladder_levels(cfg))
          /\ C13_SideOnce(sim.open_short, sim.short_remaining_frac,
                          sim.open_short.entry_price - row'.close,
                          short_ladder_levels(cfg)) ]_vars

\* After a BTC-crash close a new long has been opened, and it carries a
\* milestone executed by the long before it.
C13_StaleMilestone ==
    /\ family \in DOMAIN Runs /\ phase = "loop"
    /\ \E i \in 1..Len(sim.trades) :
          sim.trades[i].direction = "long" /\ ExitReason(sim.trades[i]) = "btc_crash"
    /\ sim.open_long # None
    /\ sim.open_long.entry_bar_index = sim.bar_idx
    /\ sim.ladder_trims_long # {}

----------------------------------------------------------------------------
(* evaluate_signal as a function of its four arguments *)

\* Largest bar_index passed with an open position entered at bar 0.
MaxBarIndex == 6

\* A caller's configuration: two days of grace, fixed stop-loss, volume
\* confirmation with the default threshold.
GRACE_TWO ==
    Merge(SIGNAL_CONFIG, [ grace_period_days |-> 2, volume_confirm |-> TRUE ])

EvalConfigs == {SIGNAL_CONFIG, IMPROVED_CONFIG, GRACE_TWO}

CrossFlags ==
    { [ema_crossed_up |-> TRUE], [ema_crossed_down |-> TRUE], NoOver }

\* Rows seen with no position: every entry gate passing, failing and undefined.
EvalGateRows ==
    { make_bar(10000, Merge(x, [ adx |-> a, rsi_14 |-> o, sma_50 |-> m,
                                 volume_ratio |-> v,
                                 recent_bearish_cross |-> rb,
                                 recent_bullish_cross |-> ru ])) :
        x \in CrossFlags, a \in {15, 25, NaN}, o \in {20, 50, 80, NaN},
        m \in {9000, 11000, NaN}, v \in {5, 15, NaN},
        rb \in BOOLEAN, ru \in BOOLEAN }

\* Rows seen with a position entered at $10.00: at, 10% under and 10% over the
\* entry, with a low, a high and an undefined atr_pct.
EvalOverrideRows ==
    { make_bar(c, Merge(x, [ atr_pct |-> t, sma_50 |-> c + d,
                             days_below_sma50 |-> n, adx |-> a ])) :
        x \in CrossFlags, c \in {9000, 10000, 11000}, t \in {20, 60, NaN},
        d \in {-1000, 1000}, n \in {0, 5}, a \in {15, 25} }

EvalTrades ==
    { [direction |-> dir, entry_price |-> 10000, entry_bar_index |-> 0] :
        dir \in {"long", "short"} }

\* The calls explored: (row, open_trade, config, bar_index).
EvalInputs ==
    { <<r, None, c, 0>> : r \in EvalGateRows, c \in EvalConfigs }
    \cup { <<r, t, c, b>> : r \in EvalOverrideRows, t \in EvalTrades,
                            c \in EvalConfigs, b \in 0..MaxBarIndex }

InitEval ==
    /\ series = Idle
    /\ \E in \in EvalInputs :
          /\ row = in[1]
          /\ cfg = in[3]
          /\ ev = [ phase |-> "call", open_trade |-> in[2], bar_index |-> in[4],
                    result |-> <<"none", "none">> ]
    /\ sim = Idle /\ phase = "idle"
    /\ cfgB = Idle /\ simB = Idle /\ family = "signal" /\ hist = InitHist
    /\ cb = Idle /\ pool = Idle /\ lev = Idle

Evaluate ==
    /\ ev.phase = "call"
    /\ ev' = [ev EXCEPT !.phase = "return",
                        !.result = evaluate_signal(row, ev.open_trade, cfg,
                                                   ev.bar_index)]
    /\ UNCHANGED <<cfg, sim, row, phase, cfgB, simB, family, hist, cb, pool, lev, series>>

NextEval == Evaluate

SpecEval == InitEval /\ [][NextEval]_vars

----------------------------------------------------------------------------
(* C14 *)

C14_Days == ev.bar_index - ev.open_trade.entry_bar_index
C14_Grace == Get(cfg, "grace_period_days", 0)
C14_OverrideReasons == {"stop_loss", "atr_stop_loss", "trend_break"}

\* The adverse move of the open position, times entry_price, in percent.
C14_Adverse ==
    IF ev.open_trade.direction = "long"
    THEN (ev.open_trade.entry_price - row.close) * 100
    ELSE (row.close - ev.open_trade.entry_price) * 100

\* The stop level in force is reached: atr_pct * multiplier when the dynamic
\* stop is on and atr_pct is defined, stop_loss_pct otherwise.
C14_StopReached ==
    IF Get(cfg, "atr_stop_loss", FALSE) /\ row.atr_pct # NaN
    THEN C14_Adverse * 100 >=
            row.atr_pct * Get(cfg, "atr_stop_multiplier", 20) * ev.open_trade.entry_price
    ELSE C14_Adverse * 10 >= cfg.stop_loss_pct * ev.open_trade.entry_price

C14_TrendBroken ==
    /\ ev.open_trade.direction = "long"
    /\ row.days_below_sma50 >= Get(cfg, "trend_break_confirm_days", 1)

\* C14: with grace_period_days = G no stop-loss or trend-break signal is
\* returned for a position fewer than G bars after its entry bar, and from the
\* bar G bars after entry on a reached stop or a confirmed trend break is
\* returned as the exit signal.
C14_GraceThenActive ==
    (ev.phase = "return" /\ ev.open_trade # None) =>
        /\ C14_Days < C14_Grace => ev.result[2] \notin C14_OverrideReasons
        /\ (C14_Days >= C14_Grace /\ C14_StopReached) =>
              ev.result[2] \in {"stop_loss", "atr_stop_loss"}
        /\ (C14_Days >= C14_Grace /\ C14_TrendBroken) =>
              ev.result[1] = "red" /\ ev.result[2] \in C14_OverrideReasons

\* A long exactly G > 0 bars after its entry gets its trend-break exit.
C14_Witness ==
    /\ ev.phase = "return" /\ ev.open_trade # None
    /\ C14_Grace > 0 /\ C14_Days = C14_Grace
    /\ ev.result = <<"red", "trend_break">>

----------------------------------------------------------------------------
(* C15 *)

C15_StopReason ==
    IF Get(cfg, "atr_stop_loss", FALSE) /\ row.atr_pct # NaN
    THEN "atr_stop_loss" ELSE "stop_loss"

C15_CloseColor == IF ev.open_trade.direction = "long" THEN "red" ELSE "green"

\* C15: for an open position past its grace period the stop-loss (dynamic when
\* enabled and atr_pct is defined, fixed otherwise) is decided first, the
\* trend break second and the entry rules last: a reached stop gives the stop
\* reason whether or not the trend is broken, a broken trend alone gives
\* trend_break whether or not the bar has a crossover, and only otherwise is
\* the result one of the entry rules.
C15_StopThenTrendThenEntry ==
    (ev.phase = "return" /\ ev.open_trade # None /\ C14_Days >= C14_Grace) =>
        /\ C14_StopReached => ev.result = <<C15_CloseColor, C15_StopReason>>
        /\ (~C14_StopReached /\ C14_TrendBroken) =>
              ev.result = <<"red", "trend_break">>
        /\ (~C14_StopReached /\ ~C14_TrendBroken) =>
              ev.result[2] \notin C14_OverrideReasons

\* A bullish-crossover bar that passes the trend-strength and trend-average
\* gates, on which a long past its grace period has only its trend break.
C15_Witness ==
    /\ ev.phase = "return" /\ ev.open_trade # None /\ C14_Days >= C14_Grace
    /\ row.ema_crossed_up /\ row.adx >= cfg.adx_threshold /\ row.close >= row.sma_50
    /\ ~C14_StopReached /\ C14_TrendBroken
    /\ ev.result = <<"red", "trend_break">>

----------------------------------------------------------------------------
(* C16 *)

\* Every indicator an enabled entry gate reads has a value on this row.
C16_Defined ==
    /\ row.adx # NaN /\ row.rsi_14 # NaN /\ row.sma_50 # NaN
    /\ Get(cfg, "volume_confirm", FALSE) => row.volume_ratio # NaN

\* The gates in their order, as <<failed, reason>>; lo..hi is the entry band of
\* the oscillator, against is "price on the wrong side of the trend average",
\* opposite is "opposing cross inside the look-back window".
C16_Gates(lo, hi, against, opposite) ==
    << <<row.adx < cfg.adx_threshold, "chop">>,
       <<row.rsi_14 < lo \/ row.rsi_14 > hi, "rsi_out_of_range">>,
       <<against, "trend_disagree">>,
       <<opposite, "anti_whipsaw">>,
       <<Get(cfg, "volume_confirm", FALSE)
            /\ row.volume_ratio < Get(cfg, "volume_entry_threshold", 12),
         "low_volume">> >>

C16_LongGates ==
    C16_Gates(cfg.rsi_long_entry_min, cfg.rsi_long_entry_max,
              row.close < row.sma_50, row.recent_bearish_cross)

C16_ShortGates ==
    C16_Gates(cfg.rsi_short_entry_min, cfg.rsi_short_entry_max,
              row.close > row.sma_50, row.recent_bullish_cross)

\* The entry signal when no gate fails, else neutral with the reason of the
\* first gate that fails.
C16_Expected(gates, entry) ==
    IF \A i \in 1..Len(gates) : ~gates[i][1] THEN entry
    ELSE LET first == CHOOSE i \in 1..Len(gates) :
                         gates[i][1] /\ \A j \in 1..(i - 1) : ~gates[j][1]
         IN  <<"grey", gates[first][2]>>

----------------------------------------------------------------------------
(* C17 *)

\* C17: a bar on which an indicator needed by an enabled entry gate is
\* undefined (trend strength, oscillator, trend average, or volume ratio when
\* volume confirmation is on) never yields a bullish or bearish entry signal.
C17_UndefinedNeverEnters ==
    (ev.phase = "return" /\ ev.open_trade = None /\ ~C16_Defined) =>
        ev.result[1] \notin {"green", "red"}

\* A bullish crossover with undefined trend strength is returned as an entry.
C17_EntryOnUndefinedAdx ==
    /\ ev.phase = "return" /\ ev.open_trade = None
    /\ row.adx = NaN /\ row.ema_crossed_up
    /\ ev.result = <<"green", "ema_cross_up">>

\* What holds instead: with an undefined indicator the entry is refused only
\* by a gate whose own indicator is defined and on the failing side.
C17_OnlyDefinedGatesRefuse ==
    (ev.phase = "return" /\ ev.open_trade = None
     /\ (row.ema_crossed_up \/ row.ema_crossed_down)) =>
        /\ ev.result[2] = "chop" => row.adx # NaN
        /\ ev.result[2] = "rsi_out_of_range" => row.rsi_14 # NaN
        /\ ev.result[2] = "trend_disagree" => row.sma_50 # NaN
        /\ ev.result[2] = "low_volume" => row.volume_ratio # NaN

----------------------------------------------------------------------------
(* C18 *)

C18_BandDirections == {"bb_long", "bb_short", "bb2_long", "bb2_short"}

\* The records of the primary track, whole and in order: longs, shorts, their
\* trims, tranche fills and re-entry pieces.
C18_Primary(s) ==
    SelectSeq(s.trades, LAMBDA t : t.direction \notin C18_BandDirections)

C18_BandFamilies == {"imp_bands", "v5f_bands", "dca_bands"}

\* C18: over the same bars, the primary long and short records, their trims,
\* tranche fills and re-entry records, and the open primary positions, are the
\* same with the complementary tracks on as with them off, after every bar and
\* after the final flush.
C18_PrimaryUnaffected ==
    family \in C18_BandFamilies =>
        /\ C18_Primary(sim) = C18_Primary(simB)
        /\ sim.open_long = simB.open_long
        /\ sim.open_short = simB.open_short
        /\ sim.long_remaining_frac = simB.long_remaining_frac
        /\ sim.short_remaining_frac = simB.short_remaining_frac

\* The run with the tracks on has closed a band trade and holds a primary
\* long with a tranche fill or a trim, and the run without has no band record.
C18_Witness ==
    /\ family \in C18_BandFamilies /\ phase = "done"
    /\ \E i \in 1..Len(sim.trades) :
          sim.trades[i].direction \in C18_BandDirections /\ IsClosed(sim.trades[i])
    /\ \E i \in 1..Len(sim.trades) : sim.trades[i].direction = "long"
    /\ \E i \in 1..Len(sim.trades) : sim.trades[i].direction \in {"trim", "dca_entry"}
    /\ \A i \in 1..Len(simB.trades) :
          simB.trades[i].direction \notin C18_BandDirections

----------------------------------------------------------------------------
(* C19 *)

\* The four complementary slots with the settings that govern them.
C19_Tracks ==
    { [ slot |-> "bb_open_long", is_long |-> TRUE, prefix |-> "bb",
        on |-> Get(cfg, "rsi_bb_complementary", FALSE),
        hold |-> Get(cfg, "rsi_bb_hold_days", 5),
        stop |-> Get(cfg, "rsi_bb_stop_pct", 50) ],
      [ slot |-> "bb_open_short", is_long |-> FALSE, prefix |-> "bb",
        on |-> Get(cfg, "rsi_bb_complementary", FALSE),
        hold |-> Get(cfg, "rsi_bb_hold_days", 5),
        stop |-> Get(cfg, "rsi_bb_stop_pct", 50) ],
      [ slot |-> "bb2_open_long", is_long |-> TRUE, prefix |-> "bb2",
        on |-> Get(cfg, "bb_improved", FALSE),
        hold |-> Get(cfg, "bb_improved_hold_days", 2),
        stop |-> Get(cfg, "bb_improved_stop_pct", 30) ],
      [ slot |-> "bb2_open_short", is_long |-> FALSE, prefix |-> "bb2",
        on |-> Get(cfg, "bb_improved", FALSE),
        hold |-> Get(cfg, "bb_improved_hold_days", 2),
        stop |-> Get(cfg, "bb_improved_stop_pct", 30) ] }

\* On bar r the position p of track k has lost at least the stop percentage
\* (stop is in tenths of a percent).
C19_Stopped(k, p, r) ==
    IF k.is_long
    THEN (p.entry_price - r.close) * 1000 >= k.stop * p.entry_price
    ELSE (r.close - p.entry_price) * 1000 >= k.stop * p.entry_price

C19_Expired(k, p, bar) == bar - p.entry_bar_index >= k.hold

C19_Reverted(k, r) ==
    r.rsi_14 # NaN /\ (IF k.is_long THEN r.rsi_14 > 50 ELSE r.rsi_14 < 50)

C19_Reason(k, p, r, bar) ==
    IF C19_Stopped(k, p, r) THEN k.prefix \o "_stop"
    ELSE IF C19_Expired(k, p, bar) THEN k.prefix \o "_expiry"
    ELSE k.prefix \o "_target"

\* The step takes the next bar of the series.
C19_NextBar == phase' = "loop" /\ sim'.bar_idx = sim.bar_idx + 1

\* C19: a complementary position is closed on the first bar after its entry
\* on which its hold limit has elapsed, the oscillator is past the midline or
\* its loss has reached the stop, with the reason chosen stop, then expiry,
\* then target, and stays open on every other bar; so no complementary
\* position is open hold-limit bars after its entry bar.
C19_ClosedWhenDue ==
    [][ C19_NextBar =>
        \A k \in C19_Tracks :
            LET p == sim[k.slot]
                bar == sim'.bar_idx
            IN  (k.on /\ p # None) =>
                  IF C19_Stopped(k, p, row') \/ C19_Expired(k, p, bar)
                     \/ C19_Reverted(k, row')
                  THEN \E t \in Appended :
                          /\ t.direction = p.direction
                          /\ t.entry_bar_index = p.entry_bar_index
                          /\ t.exit_date = bar
                          /\ ExitReason(t) = C19_Reason(k, p, row', bar)
                  ELSE sim'[k.slot] = p ]_vars

\* A complementary short is still open at the end of the bar that lies its
\* full hold limit after its entry bar.
C19_HeldBeyondLimit ==
    /\ family \in DOMAIN Runs /\ phase = "loop"
    /\ \E k \in C19_Tracks :
          /\ k.on /\ sim[k.slot] # None
          /\ sim.bar_idx - sim[k.slot].entry_bar_index >= k.hold

----------------------------------------------------------------------------
(* C20 *)

\* Per complementary slot: its direction, cooldown, trigger and trend test on
\* the bar r, and the primary slot its open test reads.
C20_Direction(k) ==
    k.prefix \o (IF k.is_long THEN "_long" ELSE "_short")

C20_Cooldown(k) ==
    IF k.prefix = "bb" THEN Get(cfg, "rsi_bb_cooldown_days", 0)
    ELSE Get(cfg, "bb_improved_cooldown_days", 2)

C20_Trigger(k, r) ==
    IF k.prefix = "bb"
    THEN (IF k.is_long THEN r.rsi_below_bb ELSE r.rsi_above_bb)
    ELSE (IF k.is_long THEN r.rsi_below_bb2 ELSE r.rsi_above_bb2)

C20_TrendOk(k, r) ==
    \/ k.prefix = "bb" /\ ~Get(cfg, "rsi_bb_trend_filter", FALSE)
    \/ r.sma_50 # NaN /\ (IF k.is_long THEN r.close > r.sma_50
                                       ELSE r.close < r.sma_50)

C20_PrimaryFree(k, s) ==
    IF k.is_long THEN s.open_long = None ELSE s.open_short = None

\* Ledger s holds a stop-out of track and direction k at a bar i with
\* i <= bar <= i + cooldown, the cooldown being positive.
C20_CoolingDown(k, s, bar) ==
    /\ C20_Cooldown(k) > 0
    /\ \E i \in 1..Len(s.trades) :
          /\ s.trades[i].direction = C20_Direction(k)
          /\ ExitReason(s.trades[i]) = k.prefix \o "_stop"
          /\ s.trades[i].exit_date <= bar
          /\ bar <= s.trades[i].exit_date + C20_Cooldown(k)

\* C20: on every processed bar, a complementary position of a track and
\* direction is opened only if no stop-out of that same track and direction
\* lies on this bar or within the cooldown before it; and when the track's
\* trigger, trend test and free slots allow an open, only such a stop-out
\* prevents it, so that expiry and midline closes and stop-outs of the other
\* direction or track block nothing.
C20_CooldownBlocksOnlyItsOwn ==
    [][ BarStep =>
        \A k \in C19_Tracks :
            LET bar == sim'.bar_idx
                opened == sim'[k.slot] # None /\ sim'[k.slot].entry_bar_index = bar
            IN  k.on =>
                  /\ opened => ~C20_CoolingDown(k, sim', bar)
                  /\ ( /\ C20_Trigger(k, row') /\ C20_TrendOk(k, row')
                       /\ C20_PrimaryFree(k, sim')
                       /\ (sim'[k.slot] = None \/ opened)
                       /\ ~C20_CoolingDown(k, sim', bar) ) => opened ]_vars

\* A band long is refused on a bar inside the cooldown of its own stop-out
\* although its trigger, trend test and free slots would allow it, and the
\* ledger holds a band short of the same track opened inside that cooldown.
C20_Witness ==
    /\ family \in DOMAIN Runs /\ phase = "loop" /\ ~sim.skipped_bar
    /\ \E k \in C19_Tracks :
          /\ k.on /\ k.is_long
          /\ C20_CoolingDown(k, sim, sim.bar_idx)
          /\ \A i \in 1..Len(sim.trades) :
                (sim.trades[i].direction = C20_Direction(k)
                 /\ ExitReason(sim.trades[i]) = k.prefix \o "_stop")
                    => sim.trades[i].exit_date < sim.bar_idx
          /\ C20_Trigger(k, row) /\ C20_TrendOk(k, row)
          /\ C20_PrimaryFree(k, sim)
          /\ sim[k.slot] = None
          /\ \E i, j \in 1..Len(sim.trades) :
                /\ sim.trades[i].direction = C20_Direction(k)
                /\ ExitReason(sim.trades[i]) = k.prefix \o "_stop"
                /\ sim.trades[j].direction = k.prefix \o "_short"
                /\ sim.trades[j].entry_bar_index > sim.trades[i].exit_date
                /\ sim.trades[j].entry_bar_index
                      <= sim.trades[i].exit_date + C20_Cooldown(k)

----------------------------------------------------------------------------
(* C21 *)

C21_Ledgers == {p \in {"a", "b"} \X (1..2) : p[2] <= Len(cb.input[p[1]])}

----------------------------------------------------------------------------
(* C22 *)

\* The step closed a primary position of the given direction on the bar's
\* signal; t is the record it appended.
C22_SignalClose(t, direction) ==
    /\ t \in Appended
    /\ t.direction = direction /\ IsClosed(t)
    /\ t.exit_signal_color = (IF direction = "long" THEN "red" ELSE "green")
    /\ ExitReason(t) = sim'.reason

\* pnl_usd (cents) is frac (1/10000) of the position size at pnl_pct
\* (hundredths of a percent), rounded to the cent.
C22_PnlOn(frac, pnl_pct, pnl_usd) ==
    /\ pnl_usd * 1000 - frac * pnl_pct <= 500
    /\ frac * pnl_pct - pnl_usd * 1000 <= 500

\* For one direction: the close is booked on the remaining fraction, one
\* closed record per open piece is appended with the bar, price and reason of
\* the close, and no piece is left.
C22_Side(direction, open_trade, remaining, pieces, pieces_after) ==
    \A t \in Appended :
        C22_SignalClose(t, direction) =>
            /\ open_trade # None
            /\ t.remaining_pct * 10 = remaining
            /\ C22_PnlOn(remaining, t.pnl_pct, t.pnl_usd)
            /\ pieces_after = <<>>
            /\ \A i \in 1..Len(pieces) :
                  \E u \in Appended :
                     /\ u.direction = "reentry" /\ IsClosed(u)
                     /\ u.entry_date = pieces[i].entry_date
                     /\ u.entry_price = pieces[i].entry_price
                     /\ u.exit_date = t.exit_date
                     /\ u.exit_price = t.exit_price
                     /\ ExitReason(u) = ExitReason(t)
            /\ Cardinality({k \in (Len(sim.trades) + 1)..Len(sim'.trades) :
                              sim'.trades[k].direction = "reentry"
                              /\ IsClosed(sim'.trades[k])
                              /\ sim'.trades[k].entry_signal_color
                                    = t.entry_signal_color})
                  = Len(pieces)

\* The remaining fraction and pieces a close on this bar finds: the state
\* before the bar, less what the bar's ladder and oscillator trims removed.
C22_Trimmed(color) ==
    LET ks == {k \in (Len(sim.trades) + 1)..Len(sim'.trades) :
                  sim'.trades[k].direction = "trim"
                  /\ sim'.trades[k].entry_signal_color = color}
        amount[S \in SUBSET ks] ==
            IF S = {} THEN 0
            ELSE LET k == CHOOSE x \in S : TRUE
                 IN  sim'.trades[k].trim_pct * 10 + amount[S \ {k}]
    IN  amount[ks]

\* C22: a primary position closed on the bar's opposing signal (an entry
\* cross of the other side, or a stop-loss, trend-break or trailing-stop
\* override) is booked on its remaining fraction only, and each of its open
\* re-entry pieces is closed on the same bar at the same price with the same
\* reason, so that no piece is left open.
C22_CloseTakesPieces ==
    [][ BarStep =>
          /\ C22_Side("long", sim.open_long,
                      sim.long_remaining_frac - C22_Trimmed("green"),
                      sim.reentry_pieces_long, sim'.reentry_pieces_long)
          /\ C22_Side("short", sim.open_short,
                      sim.short_remaining_frac - C22_Trimmed("red"),
                      sim.reentry_pieces_short, sim'.reentry_pieces_short) ]_vars

\* A long with a re-entry piece bought above its own entry has been closed on
\* a bearish cross, and the piece with it.
C22_Witness ==
    /\ family \in DOMAIN Runs /\ phase = "loop"
    /\ \E i, j \in 1..Len(sim.trades) :
          /\ sim.trades[i].direction = "long" /\ IsClosed(sim.trades[i])
          /\ sim.trades[j].direction = "reentry" /\ IsClosed(sim.trades[j])
          /\ sim.trades[j].exit_date = sim.trades[i].exit_date
          /\ sim.trades[j].exit_date = sim.bar_idx
          /\ sim.trades[j].entry_price > sim.trades[i].entry_price
          /\ ExitReason(sim.trades[j]) = ExitReason(sim.trades[i])
    /\ sim.reentry_pieces_long = <<>>

----------------------------------------------------------------------------
(* C23 *)

\* The bar being processed is a BTC crash day met with a primary long open.
C23_CrashBar ==
    /\ phase' = "loop" /\ sim'.bar_idx = sim.bar_idx + 1
    /\ sim.btc_crash_enabled /\ sim.open_long # None
    /\ row'.btc_in_index /\ ~IsNa(row'.btc_return)
    /\ row'.btc_return <= Get(cfg, "btc_crash_threshold", -50)

\* Short, complementary-track and confirmation-counter state.
C23_Untouched ==
    { "open_short", "short_remaining_frac", "short_peak_profit",
      "ladder_trims_short", "reentry_pieces_short", "pullback_adds_short",
      "dca_active_short", "dca_tranche_idx_short", "dca_last_fill_bar_short",
      "dca_first_entry_price_short",
      "bb_open_long", "bb_open_short", "bb_long_bars", "bb_short_bars",
      "bb_long_cooldown_until", "bb_short_cooldown_until",
      "bb2_open_long", "bb2_open_short", "bb2_long_bars", "bb2_short_bars",
      "bb2_long_cooldown_until", "bb2_short_cooldown_until",
      "consecutive_green", "consecutive_red", "opened" }

\* C23: on a bar where the BTC crash filter closes a primary long, the rest
\* of the bar is skipped: exactly one record, the long's close, is appended;
\* nothing is opened, trimmed or closed besides; and the short, the
\* complementary tracks and the confirmation counters are left as they were.
C23_CrashBarOnlyClosesLong ==
    [][ C23_CrashBar =>
          /\ Len(sim'.trades) = Len(sim.trades) + 1
          /\ SubSeq(sim'.trades, 1, Len(sim.trades)) = sim.trades
          /\ LET t == sim'.trades[Len(sim'.trades)]
             IN  /\ t.direction = "long" /\ IsClosed(t)
                 /\ t.entry_date = sim.open_long.entry_date
                 /\ t.entry_price = sim.open_long.entry_price
                 /\ t.exit_date = sim'.bar_idx
                 /\ t.exit_price = row'.close
                 /\ ExitReason(t) = "btc_crash"
          /\ sim'.open_long = None
          /\ \A f \in C23_Untouched : sim'[f] = sim[f] ]_vars

\* A crash day has closed a primary long while a complementary short was
\* open, and the short is still open after the bar.
C23_Witness ==
    /\ family \in DOMAIN Runs /\ phase = "loop"
    /\ sim.skipped_bar
    /\ Len(sim.trades) > 0
    /\ ExitReason(sim.trades[Len(sim.trades)]) = "btc_crash"
    /\ sim.trades[Len(sim.trades)].exit_date = sim.bar_idx
    /\ sim.bb_open_short # None

----------------------------------------------------------------------------
(* C24 *)

\* The step opened a primary position of the given slot on this bar.
C24_Opened(slot) ==
    /\ phase' = "loop" /\ sim'.bar_idx = sim.bar_idx + 1
    /\ sim'[slot] # None
    /\ sim'[slot].entry_bar_index = sim'.bar_idx

\* The bar's own signal is an entry cross of the given colour.
C24_CrossBar(color, cross) ==
    ~sim'.skipped_bar /\ sim'.color = color /\ sim'.reason = cross

\* C24: with confirmation_bars = N >= 1 a primary position is opened only on
\* a bar that ends a run of at least N bars which starts with an entry cross
\* of its side and on whose later bars the fast average stayed on that side
\* of the slow one; with the gate disabled a position is opened only on the
\* bar of the cross itself.
C24_OpensOnlyOnConfirmedCross ==
    [][ LET N == Get(cfg, "confirmation_bars", 0)
        IN  /\ C24_Opened("open_long") =>
                  IF N >= 1 THEN hist'.green_run >= N
                  ELSE C24_CrossBar("green", "ema_cross_up")
            /\ C24_Opened("open_short") =>
                  IF N >= 1 THEN hist'.red_run >= N
                  ELSE C24_CrossBar("red", "ema_cross_down") ]_vars

\* The same on the histories in which the crash filter never skips a bar.
C24_OpensOnlyOnConfirmedCrossNoSkip ==
    [][ LET N == Get(cfg, "confirmation_bars", 0)
        IN  ~sim.btc_crash_enabled =>
            /\ C24_Opened("open_long") =>
                  IF N >= 1 THEN hist'.green_run >= N
                  ELSE C24_CrossBar("green", "ema_cross_up")
            /\ C24_Opened("open_short") =>
                  IF N >= 1 THEN hist'.red_run >= N
                  ELSE C24_CrossBar("red", "ema_cross_down") ]_vars

\* With a gate of two bars a long is open that was entered on a bar with no
\* run of two bars behind it: the bar before was a crash day on which the
\* fast average was below the slow one.
C24_EntryOnBrokenRun ==
    /\ family \in DOMAIN Runs /\ phase = "loop"
    /\ Get(cfg, "confirmation_bars", 0) >= 2
    /\ sim.open_long # None
    /\ sim.open_long.entry_bar_index = sim.bar_idx
    /\ hist.green_run < Get(cfg, "confirmation_bars", 0)

----------------------------------------------------------------------------
(* C25 *)

\* Sum of a sequence of fractions.
RECURSIVE C25_Sum(_)
C25_Sum(q) == IF q = <<>> THEN 0 ELSE Head(q) + C25_Sum(Tail(q))

C25_Tranches == Get(cfg, "dca_tranches", <<2500, 2500, 2500, 2500>>)

\* The ledger's fill records of one colour written at or after a bar.
C25_Fills(trades, color, from) ==
    {k \in 1..Len(trades) :
        /\ trades[k].direction = "dca_entry"
        /\ trades[k].entry_signal_color = color
        /\ trades[k].entry_date >= from}

\* What the position has given up in trims so far (1/10000 of the original).
C25_Trimmed(trades, color, from) ==
    LET ks == {k \in 1..Len(trades) :
                  /\ trades[k].direction = "trim"
                  /\ trades[k].entry_signal_color = color
                  /\ trades[k].exit_date >= from}
        amount[S \in SUBSET ks] ==
            IF S = {} THEN 0
            ELSE LET k == CHOOSE x \in S : TRUE
                 IN  trades[k].trim_frac + amount[S \ {k}]
    IN  amount[ks]

\* The adverse move from the first fill price is within the cap (tenths of a
\* percent); sign is +1 for a long and -1 for a short.
C25_WithinCap(first, price, sign) ==
    sign * (first - price) * 1000 <= Get(cfg, "dca_max_adverse_pct", 30) * first

\* One direction of the staged entry on one bar.
C25_Side(slot, color, frac, active, sign, on_side) ==
    LET before == sim[slot]
        after == sim'[slot]
        opened == after # None /\ after.entry_bar_index = sim'.bar_idx
        held == /\ before # None /\ after # None
                /\ after.entry_bar_index = before.entry_bar_index
        start == after.entry_bar_index
        old == C25_Fills(sim.trades, color, start)
        new == C25_Fills(sim'.trades, color, start)
        first == sim.trades[CHOOSE k \in old : \A j \in old : k <= j].entry_price
        last == sim.trades[CHOOSE k \in old : \A j \in old : k >= j].entry_date
        due == sim'.bar_idx - last >= Get(cfg, "dca_interval_bars", 2)
    IN  /\ opened =>
            /\ sim'[frac] = C25_Tranches[1]
            /\ Cardinality(new) = 1
        /\ held =>
            /\ Cardinality(new) <= Cardinality(old) + 1
            /\ Cardinality(new) <= Len(C25_Tranches)
            /\ sim'[frac] + C25_Trimmed(sim'.trades, color, start)
                  = C25_Sum(SubSeq(C25_Tranches, 1, Cardinality(new)))
            /\ sim'[frac] + C25_Trimmed(sim'.trades, color, start)
                  <= C25_Sum(C25_Tranches)
            /\ Cardinality(new) > Cardinality(old) =>
                  /\ sim[active] /\ due /\ on_side
                  /\ C25_WithinCap(first, row'.close, sign)
            /\ (sim[active] /\ due /\ Cardinality(old) < Len(C25_Tranches)
                  /\ ~C25_WithinCap(first, row'.close, sign)) => ~sim'[active]
            /\ ~sim[active] => ~sim'[active]

\* C25: with staged entry enabled a position opens at the first tranche's
\* fraction; a later tranche is filled only on a bar at least
\* dca_interval_bars after the previous fill, with the fast average on the
\* signal's side and the adverse move from the first fill price within the
\* cap; a bar on which a tranche is due and the cap is exceeded cancels the
\* remaining tranches for good; and there are never more fills than
\* tranches, nor more filled than the tranches add up to.
C25_StagedEntry ==
    [][ (BarStep /\ Get(cfg, "dca_enabled", FALSE)) =>
          /\ C25_Side("open_long", "green", "long_remaining_frac",
                      "dca_active_long", 1, row'.ema_9 > row'.ema_21)
          /\ C25_Side("open_short", "red", "short_remaining_frac",
                      "dca_active_short", -1, row'.ema_9 < row'.ema_21) ]_vars

\* A long has had a second tranche filled and then, on a later bar more than
\* the cap below its first fill, the rest of its tranches cancelled.
C25_Witness ==
    /\ family \in DOMAIN Runs /\ phase = "loop"
    /\ Get(cfg, "dca_enabled", FALSE)
    /\ sim.open_long # None
    /\ sim.dca_tranche_idx_long = 2 /\ ~sim.dca_active_long
    /\ sim.long_remaining_frac = 5000
    /\ (sim.dca_first_entry_price_long - row.close) * 1000
          > 30 * sim.dca_first_entry_price_long

----------------------------------------------------------------------------
(* C26 *)

\* The ledger's records of pieces added, of one colour, at or after a bar.
C26_Adds(trades, color, from) ==
    {k \in 1..Len(trades) :
        /\ trades[k].direction = "reentry" /\ trades[k].status = "open"
        /\ trades[k].entry_signal_color = color
        /\ trades[k].entry_date >= from}

\* The bar qualifies for an add to a position entered at the given price:
\* profit at least the threshold, price within the buffer of the fast
\* average (both in tenths of a percent), trend intact. sign is +1 for a
\* long and -1 for a short.
C26_Qualifies(r, entry_price, sign) ==
    /\ sign * (r.close - entry_price) * 1000
          >= Get(cfg, "pullback_min_profit_pct", 50) * entry_price
    /\ (r.close - r.ema_9) * 1000 <= Get(cfg, "pullback_ema_buffer_pct", 5) * r.ema_9
    /\ (r.ema_9 - r.close) * 1000 <= Get(cfg, "pullback_ema_buffer_pct", 5) * r.ema_9
    /\ sign * (r.ema_9 - r.ema_21) > 0

\* A ladder trim was taken on the bar.
C26_LadderTrim ==
    \E t \in Appended :
        /\ t.direction = "trim"
        /\ ExitReason(t) \notin {"take_profit", "strong_take_profit"}

\* One direction of the re-entry rule on one bar.
C26_Side(slot, color, active, sign) ==
    LET new == C26_Adds(sim'.trades, color, 0) \ C26_Adds(sim.trades, color, 0)
    IN  /\ new # {} =>
            /\ Cardinality(new) = 1
            /\ sim[slot] # None /\ sim'[slot] # None
            /\ sim'[slot].entry_bar_index = sim[slot].entry_bar_index
            /\ C26_Qualifies(row', sim'[slot].entry_price, sign)
            /\ ~sim'[active]
            /\ ~C26_LadderTrim
        /\ sim'[slot] # None =>
              Cardinality(C26_Adds(sim'.trades, color, sim'[slot].entry_bar_index))
                 <= Get(cfg, "pullback_max_adds", 2)

\* C26: a primary position receives at most pullback_max_adds re-entry
\* pieces, each on a bar where its profit is at least the minimum, the price
\* is within the buffer of the fast average, the trend is intact, staged
\* entry is not active and no ladder trim was taken; and with
\* pullback_reentry_short false no short piece is ever added.
C26_BoundedGatedAdds ==
    [][ BarStep =>
          /\ C26_Side("open_long", "green", "dca_active_long", 1)
          /\ C26_Side("open_short", "red", "dca_active_short", -1)
          /\ ~Get(cfg, "pullback_reentry_short", Get(cfg, "pullback_reentry", FALSE))
                => C26_Adds(sim'.trades, "red", 0) = {} ]_vars

\* A long holds its two pieces and a third qualifying bar has added none.
C26_Witness ==
    /\ family \in DOMAIN Runs /\ phase = "loop"
    /\ sim.open_long # None /\ ~sim.skipped_bar
    /\ Cardinality(C26_Adds(sim.trades, "green", sim.open_long.entry_bar_index)) = 2
    /\ \A k \in C26_Adds(sim.trades, "green", 0) : sim.trades[k].entry_date < sim.bar_idx
    /\ C26_Qualifies(row, sim.open_long.entry_price, 1)
    /\ ~sim.dca_active_long /\ ~sim.trimmed_this_bar

\* With short re-entries switched off, a short sits on a bar that qualifies
\* for an add and has none.
C26_ShortGateWitness ==
    /\ family \in DOMAIN Runs /\ phase = "loop"
    /\ Get(cfg, "pullback_reentry", FALSE) /\ ~Get(cfg, "pullback_reentry_short", TRUE)
    /\ sim.open_short # None /\ ~sim.skipped_bar
    /\ C26_Qualifies(row, sim.open_short.entry_price, -1)

----------------------------------------------------------------------------
(* C27 *)

\* The configured fraction for the bar's oscillator reading (0 if it is
\* beyond neither threshold): the orange fraction beyond the second
\* threshold, the yellow one beyond the first only. A short's thresholds
\* count only when configured above 0.
C27_Fraction(rsi14, direction) ==
    LET second == IF direction = "long" THEN cfg.rsi_orange_threshold
                  ELSE Get(cfg, "rsi_short_orange_threshold", 0)
        first == IF direction = "long" THEN cfg.rsi_yellow_threshold
                 ELSE Get(cfg, "rsi_short_yellow_threshold", 0)
        beyond(th) == IF direction = "long" THEN rsi14 >= th
                      ELSE th > 0 /\ rsi14 <= th
    IN  IF rsi14 = NaN THEN 0
        ELSE IF beyond(second) THEN cfg.trim_pct_orange
        ELSE IF beyond(first) THEN cfg.trim_pct_yellow
        ELSE 0

\* amount (1/10000 of the original position) is what the mode removes; the
\* cascading mode rounds the product to four decimals.
C27_AmountOk(amount, fraction, remaining) ==
    IF Get(cfg, "trim_mode", "pct_of_remaining") = "pct_of_original"
    THEN /\ amount <= fraction /\ amount <= remaining
         /\ amount = fraction \/ amount = remaining
    ELSE /\ amount * 10000 - remaining * fraction <= 5000
         /\ remaining * fraction - amount * 10000 <= 5000

\* The oscillator trims of one colour written on the bar.
C27_Trims(color) ==
    {k \in (Len(sim.trades) + 1)..Len(sim'.trades) :
        /\ sim'.trades[k].direction = "trim"
        /\ sim'.trades[k].entry_signal_color = color
        /\ sim'.trades[k].exit_signal_color = "yellow"}

\* One direction of the oscillator trim on one bar.
C27_Side(slot, color, direction, frac, fill_color) ==
    LET fraction == C27_Fraction(row'.rsi_14, direction)
        remaining == sim[frac]
        ks == C27_Trims(color)
        \* the position is held over the bar and nothing else moved its size
        quiet == /\ sim'[slot] # None
                 /\ sim'[slot].entry_bar_index = sim[slot].entry_bar_index
                 /\ \A t \in Appended : t.direction # "dca_entry"
    IN  (sim[slot] # None /\ remaining > 1000 /\ ~C26_LadderTrim) =>
            /\ Cardinality(ks) <= 1
            /\ \A k \in ks :
                  LET t == sim'.trades[k]
                  IN  /\ fraction > 0
                      /\ C27_AmountOk(t.trim_frac, fraction, remaining)
                      /\ t.trim_frac > 500
                      /\ t.exit_signal_reason =
                            (IF fraction = cfg.trim_pct_orange
                             THEN "strong_take_profit" ELSE "take_profit")
                      /\ quiet => sim'[frac] = remaining - t.trim_frac
            /\ ks = {} =>
                  /\ fraction > 0 =>
                        \E a \in 0..500 : C27_AmountOk(a, fraction, remaining)
                  /\ quiet => sim'[frac] = remaining

\* C27: on a bar with an open primary position of more than 0.1 and no
\* ladder trim, a reading beyond the second threshold trims the larger
\* (orange) fraction and one beyond only the first the smaller (yellow) one;
\* the amount is min(fraction, remaining) in pct_of_original mode and
\* remaining x fraction in pct_of_remaining mode; an amount of 0.05 or less
\* writes no trim and leaves the position as it was.
C27_OscillatorTrim ==
    [][ BarStep =>
          /\ cfg.trim_pct_orange >= cfg.trim_pct_yellow
          /\ C27_Side("open_long", "green", "long", "long_remaining_frac", "green")
          /\ C27_Side("open_short", "red", "short", "short_remaining_frac", "red")
      ]_vars

\* In pct_of_remaining mode a long cut down to an eighth has met a reading
\* beyond the first threshold only, and the trim of 0.03 was suppressed.
C27_Witness ==
    /\ family \in DOMAIN Runs /\ phase = "loop"
    /\ Get(cfg, "trim_mode", "pct_of_remaining") = "pct_of_remaining"
    /\ sim.open_long # None /\ ~sim.skipped_bar
    /\ sim.long_remaining_frac = 1250
    /\ row.rsi_14 >= cfg.rsi_yellow_threshold /\ row.rsi_14 < cfg.rsi_orange_threshold
    /\ \A k \in 1..Len(sim.trades) : sim.trades[k].exit_date # sim.bar_idx

\* In pct_of_original mode a reading beyond the second threshold has taken
\* the orange fraction from a short and one beyond the first the yellow one.
C27_BothFractionsWitness ==
    /\ family \in DOMAIN Runs /\ phase = "loop"
    /\ Get(cfg, "trim_mode", "pct_of_remaining") = "pct_of_original"
    /\ \E i, j \in 1..Len(sim.trades) :
          /\ sim.trades[i].direction = "trim" /\ sim.trades[j].direction = "trim"
          /\ ExitReason(sim.trades[i]) = "strong_take_profit"
          /\ sim.trades[i].trim_frac = cfg.trim_pct_orange
          /\ ExitReason(sim.trades[j]) = "take_profit"
          /\ sim.trades[j].trim_frac = cfg.trim_pct_yellow

----------------------------------------------------------------------------
(* C28 *)

\* The step is the end-of-series flush of a run.
C28_FlushStep == family \in DOMAIN Runs /\ phase = "loop" /\ phase' = "done"

C28_Slots ==
    {"open_long", "open_short", "bb_open_long", "bb_open_short",
     "bb2_open_long", "bb2_open_short"}

\* t is the end-of-series record of a position with the given entry, priced
\* at the last bar's close: either closed with an exit reason of its own, or
\* open with no exit date and no exit reason.
C28_Record(t, closed, direction, entry_date, entry_price) ==
    /\ t.direction = direction
    /\ t.entry_date = entry_date /\ t.entry_price = entry_price
    /\ t.exit_price = row.close
    /\ IF closed
       THEN t.status = "closed" /\ "exit_signal_reason" \in DOMAIN t
       ELSE /\ t.status = "open" /\ t.exit_date = NoneDate
            /\ "exit_signal_reason" \notin DOMAIN t

\* The flush writes exactly one record, of the given shape, for every open
\* position and piece, and nothing else.
C28_Flushed(closed) ==
    LET new == (Len(sim.trades) + 1)..Len(sim'.trades)
        pieces == sim.reentry_pieces_long \o sim.reentry_pieces_short
        held == {slot \in C28_Slots : sim[slot] # None}
    IN  /\ SubSeq(sim'.trades, 1, Len(sim.trades)) = sim.trades
        /\ Len(sim'.trades) = Len(sim.trades) + Cardinality(held) + Len(pieces)
        /\ \A slot \in held :
              Cardinality({k \in new :
                  C28_Record(sim'.trades[k], closed, sim[slot].direction,
                             sim[slot].entry_date, sim[slot].entry_price)}) = 1
        /\ \A i \in 1..Len(pieces) :
              Cardinality({k \in new :
                  C28_Record(sim'.trades[k], closed, "reentry",
                             pieces[i].entry_date, pieces[i].entry_price)})
                 = Cardinality({j \in 1..Len(pieces) :
                        /\ pieces[j].entry_date = pieces[i].entry_date
                        /\ pieces[j].entry_price = pieces[i].entry_price})

C28_BandWitness ==
    /\ family \in DOMAIN Runs /\ phase = "done"
    /\ \E i \in 1..Len(sim.trades) :
          /\ sim.trades[i].direction \in {"bb_long", "bb_short", "bb2_long", "bb2_short"}
          /\ sim.trades[i].status = "open" /\ sim.trades[i].exit_price = row.close

----------------------------------------------------------------------------
(* C29 *)

\* The replays that run one configuration twice over the same bars.
C29_SameInputs == {f \in DOMAIN Pairs : Pairs[f].a = Pairs[f].b}

----------------------------------------------------------------------------
(* simulate_trades called on a frame whose index the caller built *)

\* Longest frame and latest timestamp explored.
MaxSeriesLen == 3
MaxStamp == 3

\* str(date): the ledger carries the timestamp of the row, not its position.
Stamp(t, index) ==
    [f \in DOMAIN t |->
        IF f \in {"entry_date", "exit_date"} /\ t[f] # NoneDate
        THEN index[t[f] + 1] ELSE t[f]]

InitSeries ==
    /\ cfg \in {SIGNAL_CONFIG, IMPROVED_CONFIG}
    /\ sim = InitSim(cfg, TRUE, FALSE) /\ row = NoRow /\ phase = "idle"
    /\ cfgB = Idle /\ simB = Idle /\ family = "frame" /\ hist = InitHist
    /\ cb = Idle /\ pool = Idle /\ lev = Idle /\ ev = Idle
    /\ \E n \in 1..MaxSeriesLen :
          \E index \in [1..n -> 1..MaxStamp], rows \in [1..n -> LongBars] :
             series = [ phase |-> "loop", index |-> index, rows |-> rows,
                        raised |-> "none", trades |-> <<>> ]

\* for bar_idx, (date, row) in enumerate(df.iterrows()): the rows are walked
\* in the order of the frame; no statement reads the order of the index.
SeriesBar ==
    /\ series.phase = "loop"
    /\ sim.bar_idx + 1 < Len(series.rows)
    /\ row' = series.rows[sim.bar_idx + 2]
    /\ sim' = ProcessBar(sim, row', cfg)
    /\ UNCHANGED <<cfg, phase, cfgB, simB, family, hist, cb, pool, lev, ev, series>>

\* After the last row: the flush, and the ledger is returned.
SeriesReturn ==
    /\ series.phase = "loop"
    /\ sim.bar_idx + 1 = Len(series.rows)
    /\ LET trades == Flush(sim, row.close, cfg)
       IN  series' = [series EXCEPT
                        !.phase = "returned",
                        !.trades = [i \in 1..Len(trades) |->
                                       Stamp(trades[i], series.index)]]
    /\ UNCHANGED <<simVars, cb, pool, lev>>

NextSeries == SeriesBar \/ SeriesReturn

SpecSeries == InitSeries /\ [][NextSeries]_vars

----------------------------------------------------------------------------
(* C30 *)

\* The timestamps of the frame are strictly ascending.
C30_StrictlyAscending(index) ==
    \A i \in 1..(Len(index) - 1) : index[i] < index[i + 1]

\* C30: a call on a frame whose timestamps are not strictly ascending
\* (out of order or duplicated) raises MalformedSeriesError and emits no
\* trade record.
C30_MalformedSeriesRaises ==
    (series.phase = "returned" /\ ~C30_StrictlyAscending(series.index)) =>
        /\ series.raised = "MalformedSeriesError"
        /\ series.trades = <<>>

\* A call on a frame with a timestamp repeated and one out of order has
\* returned, without an error, a ledger with a trade that is closed before
\* it was entered.
C30_LedgerFromMalformedSeries ==
    /\ series.phase = "returned"
    /\ ~C30_StrictlyAscending(series.index)
    /\ series.raised = "none"
    /\ \E i \in 1..Len(series.trades) :
          /\ series.trades[i].status = "closed"
          /\ series.trades[i].exit_date < series.trades[i].entry_date

\* On a frame with strictly ascending timestamps the call returns normally.
C30_WellFormedReturns ==
    (series.phase = "returned" /\ C30_StrictlyAscending(series.index)) =>
        series.raised = "none"

\* ---------------------------------------------------------------------------
\* C31  Close record of a short closed by the trailing stop
\* ---------------------------------------------------------------------------

\* A closed short record whose exit reason is trailing_stop
C31_ShortStopClose(t) ==
    /\ t.direction = "short"
    /\ t.status = "closed"
    /\ Get(t, "exit_signal_reason", "none") = "trailing_stop"

\* pnl_pct (hundredths of a percent) is (entry - price) / entry x 100, rounded
C31_PnlAt(t, price) ==
    /\ t.pnl_pct * t.entry_price - (t.entry_price - price) * 10000 <= t.entry_price \div 2 + 1
    /\ (t.entry_price - price) * 10000 - t.pnl_pct * t.entry_price <= t.entry_price \div 2 + 1

\* The record is priced, coloured and valued at the firing bar's close
C31_RecordAtClose ==
    BarStep =>
        \A t \in Appended :
            C31_ShortStopClose(t) =>
                /\ t.exit_price = row'.close
                /\ t.exit_signal_color = "green"
                /\ C31_PnlAt(t, row'.close)

\* Number of ledger records of the given directions closed by the trailing stop
C31_StopCloses(trades, directions) ==
    Cardinality({i \in 1..Len(trades) :
        /\ trades[i].direction \in directions
        /\ trades[i].status = "closed"
        /\ Get(trades[i], "exit_signal_reason", "none") = "trailing_stop"})

\* C31 as stated: the close record of a short closed by the trailing stop is
\* priced at the firing bar's close, has reason trailing_stop, colour green and
\* pnl_pct computed at that close, and extract_metrics counts exactly these
\* closed short records as trailing_stop_closes.
C31_CountsShortStopClosesOnly ==
    [][ /\ C31_RecordAtClose
        /\ extract_metrics(sim'.trades).trailing_stop_closes
             = C31_StopCloses(sim'.trades, {"short"}) ]_vars

\* C31 amended: the close record of a short closed by the trailing stop is
\* priced at the firing bar's close, has colour green and pnl_pct computed at
\* that close, never at the peak; extract_metrics counts as trailing_stop_closes
\* every closed record whose exit reason is trailing_stop: the closes of shorts,
\* the closes of longs where the long trailing stop is enabled, and the
\* re-entry pieces closed together with either.
C31_ShortStopCloseAtClose ==
    [][ /\ C31_RecordAtClose
        /\ extract_metrics(sim'.trades).trailing_stop_closes
             = C31_StopCloses(sim'.trades, {"short"})
               + C31_StopCloses(sim'.trades, {"long"})
               + C31_StopCloses(sim'.trades, {"reentry"}) ]_vars

\* A short closed by the trailing stop with a profit below the activation
\* level, hence below the peak profit that armed the stop
C31_Witness ==
    \E i \in 1..Len(sim.trades) :
        /\ C31_ShortStopClose(sim.trades[i])
        /\ sim.trades[i].pnl_pct > 0
        /\ sim.trades[i].pnl_pct < 500

\* ---------------------------------------------------------------------------
\* C32  Ladder trim and trailing stop on the same bar
\* ---------------------------------------------------------------------------

\* Ledger positions of the ladder trims written on this bar for a direction
C32_LadderTrims(color) ==
    {k \in (Len(sim.trades) + 1)..Len(sim'.trades) :
        /\ sim'.trades[k].direction = "trim"
        /\ sim'.trades[k].entry_signal_color = color
        /\ sim'.trades[k].exit_signal_color = "green"
        /\ Get(sim'.trades[k], "exit_signal_reason", "none")
             \notin {"take_profit", "strong_take_profit", "rsi_velocity"}}

\* Ledger positions of the closes written on this bar for a direction
C32_Closes(direction) ==
    {k \in (Len(sim.trades) + 1)..Len(sim'.trades) :
        /\ sim'.trades[k].direction = direction
        /\ sim'.trades[k].status = "closed"}

\* Sum of the fractions (1/10000) trimmed by the given records
C32_Amount(ks) ==
    LET amount[S \in SUBSET ks] ==
            IF S = {} THEN 0
            ELSE LET k == CHOOSE x \in S : TRUE
                 IN  sim'.trades[k].trim_frac + amount[S \ {k}]
    IN  amount[ks]

\* The trailing stop's test on this bar, from the profit now and the best
\* profit the program has tracked for the position
C32_StopFires(enabled, tracked, current) ==
    /\ enabled
    /\ LET peak == IF current.n * tracked.d > tracked.n * current.d
                   THEN current ELSE tracked
       IN  /\ peak.n * 10 >= Get(cfg, "trailing_stop_activation_pct", 50) * peak.d
           /\ (peak.n * current.d - current.n * peak.d) * 10
                >= Get(cfg, "trailing_stop_trail_pct", 25) * peak.d * current.d

C32_Side(direction, color, fires, remaining) ==
    C32_LadderTrims(color) # {} /\ fires =>
        /\ Cardinality(C32_Closes(direction)) = 1
        /\ \A c \in C32_Closes(direction) :
              /\ \A k \in C32_LadderTrims(color) : k < c
              /\ sim'.trades[c].exit_date = sim'.trades[CHOOSE k \in C32_LadderTrims(color) : TRUE].exit_date
              /\ sim'.trades[c].remaining_pct * 10
                   = remaining - C32_Amount(C32_LadderTrims(color))
              /\ sim'.trades[c].pnl_usd * 1000
                   - (remaining - C32_Amount(C32_LadderTrims(color))) * sim'.trades[c].pnl_pct <= 500
              /\ (remaining - C32_Amount(C32_LadderTrims(color))) * sim'.trades[c].pnl_pct
                   - sim'.trades[c].pnl_usd * 1000 <= 500

\* C32: on a bar where a position both reaches a ladder milestone not yet
\* executed and triggers its trailing stop, the trim record is appended before
\* the close record, the close realizes its P&L on the fraction remaining
\* after the trim, and the position is closed on that bar despite the trim.
C32_TrimThenStopClose ==
    [][ BarStep =>
          /\ sim.open_short # None =>
               C32_Side("short", "red",
                   C32_StopFires(Get(cfg, "trailing_stop_short", FALSE),
                                 sim.short_peak_profit,
                                 Rat((sim.open_short.entry_price - row'.close) * 100,
                                     sim.open_short.entry_price)),
                   sim.short_remaining_frac)
          /\ sim.open_long # None =>
               C32_Side("long", "green",
                   C32_StopFires(Get(cfg, "trailing_stop_long", FALSE),
                                 sim.long_peak_profit,
                                 Rat((row'.close - sim.open_long.entry_price) * 100,
                                     sim.open_long.entry_price)),
                   sim.long_remaining_frac) ]_vars

\* A short closed by the trailing stop on the bar of its first ladder trim
C32_Witness ==
    \E k \in 1..Len(sim.trades), c \in 1..Len(sim.trades) :
        /\ k < c
        /\ sim.trades[k].direction = "trim"
        /\ sim.trades[k].entry_signal_color = "red"
        /\ sim.trades[k].exit_signal_color = "green"
        /\ sim.trades[c].direction = "short"
        /\ sim.trades[c].status = "closed"
        /\ Get(sim.trades[c], "exit_signal_reason", "none") = "trailing_stop"
        /\ sim.trades[c].exit_date = sim.trades[k].exit_date
        /\ sim.trades[c].entry_date = sim.trades[k].entry_date
        /\ sim.trades[c].remaining_pct < 1000

\* ---------------------------------------------------------------------------
\* C33  One primary direction at a time
\* ---------------------------------------------------------------------------

\* The primary position in the slot was opened on this bar
C33_OpenedNow(slot) ==
    /\ sim'[slot] # None
    /\ sim'[slot].entry_bar_index = sim'.bar_idx

\* The opposite position held before the bar was closed on it, ahead of any
\* record the opening writes
C33_ClosedFirst(direction, held, opened_color) ==
    held # None =>
        \E c \in (Len(sim.trades) + 1)..Len(sim'.trades) :
            /\ sim'.trades[c].direction = direction
            /\ sim'.trades[c].status = "closed"
            /\ sim'.trades[c].entry_date = held.entry_date
            /\ sim'.trades[c].exit_date = sim'.bar_idx
            /\ \A k \in (Len(sim.trades) + 1)..Len(sim'.trades) :
                  sim'.trades[k].direction = "dca_entry"
                  /\ sim'.trades[k].entry_signal_color = opened_color => c < k

C33_OpeningStep ==
    BarStep =>
        /\ C33_OpenedNow("open_long") =>
              sim'.open_short = None /\ C33_ClosedFirst("short", sim.open_short, "green")
        /\ C33_OpenedNow("open_short") =>
              sim'.open_long = None /\ C33_ClosedFirst("long", sim.open_long, "red")

\* C33: at the end of every bar a primary long and a primary short are never
\* both open; the bar on which a primary position opens closes an open
\* primary position of the opposite direction first, with or without the
\* confirmation gate; the two confirmation counters are never both positive.
C33_OneDirectionAtATime ==
    [][ /\ ~(sim'.open_long # None /\ sim'.open_short # None)
        /\ ~(sim'.consecutive_green > 0 /\ sim'.consecutive_red > 0)
        /\ C33_OpeningStep ]_vars

\* Without the gate: a long opened on the bar that closed the short
C33_Witness ==
    /\ Get(cfg, "confirmation_bars", 0) = 0
    /\ phase = "loop"
    /\ sim.open_long # None
    /\ sim.open_long.entry_bar_index = sim.bar_idx
    /\ \E c \in 1..Len(sim.trades) :
          /\ sim.trades[c].direction = "short"
          /\ sim.trades[c].status = "closed"
          /\ sim.trades[c].exit_date = sim.bar_idx

\* With the gate: a short opened on a confirmation bar after the long was
\* closed on the cross bar, while the counter was running
C33_GateWitness ==
    /\ Get(cfg, "confirmation_bars", 0) > 1
    /\ phase = "loop"
    /\ sim.open_short # None
    /\ sim.open_short.entry_bar_index = sim.bar_idx
    /\ \E c \in 1..Len(sim.trades) :
          /\ sim.trades[c].direction = "long"
          /\ sim.trades[c].status = "closed"
          /\ sim.trades[c].exit_date < sim.bar_idx
          /\ Get(sim.trades[c], "exit_signal_reason", "none") = "ema_cross_down"

\* ---------------------------------------------------------------------------
\* C34  No re-opening on the stop-out bar
\* ---------------------------------------------------------------------------

\* A primary position of the direction was closed on this bar by a stop-loss,
\* a trend break, the trailing stop or a velocity close
C34_StoppedOut(direction) ==
    \E c \in (Len(sim.trades) + 1)..Len(sim'.trades) :
        /\ sim'.trades[c].direction = direction
        /\ sim'.trades[c].status = "closed"
        /\ sim'.trades[c].exit_date = sim'.bar_idx
        /\ Get(sim'.trades[c], "exit_signal_reason", "none")
             \in {"stop_loss", "atr_stop_loss", "trend_break", "trailing_stop",
                  "rsi_velocity"}

\* A primary position of the direction is open after the bar and was entered
\* on it
C34_Reopened(slot) ==
    /\ sim'[slot] # None
    /\ sim'[slot].entry_bar_index = sim'.bar_idx

C34_NoReopen ==
    BarStep =>
        /\ C34_StoppedOut("long") => ~C34_Reopened("open_long")
        /\ C34_StoppedOut("short") => ~C34_Reopened("open_short")

\* C34: a primary position is never opened on the bar on which a primary
\* position of the same direction was closed by a stop-loss, trend break,
\* trailing stop or velocity close, under any configuration, including
\* confirmation_bars > 0.
C34_NoReopenOnStopOutBar ==
    [][C34_NoReopen]_vars

\* A long entered on the bar whose ledger shows a long stopped out
C34_ReopenedOnStopOutBar ==
    /\ phase = "loop"
    /\ sim.open_long # None
    /\ sim.open_long.entry_bar_index = sim.bar_idx
    /\ \E c \in 1..Len(sim.trades) :
          /\ sim.trades[c].direction = "long"
          /\ sim.trades[c].status = "closed"
          /\ sim.trades[c].exit_date = sim.bar_idx
          /\ Get(sim.trades[c], "exit_signal_reason", "none")
               \in {"stop_loss", "atr_stop_loss", "trend_break", "trailing_stop",
                    "rsi_velocity"}

\* Without the gate and without a velocity close the statement holds
C34_NoReopenUngated ==
    [][ Get(cfg, "confirmation_bars", 0) <= 0
        /\ Get(cfg, "rsi_velocity_action", "warn") # "close" => C34_NoReopen ]_vars

\* ---------------------------------------------------------------------------
\* C35  Re-entry pieces and their parent
\* ---------------------------------------------------------------------------

\* C35: a re-entry piece never outlives its parent: at the end of every bar,
\* if no primary position is open in a direction then no re-entry piece of
\* that direction is open and the per-position add counter is zero, whichever
\* rule closed the parent.
C35_PiecesEndWithParent ==
    /\ sim.open_long = None =>
          Len(sim.reentry_pieces_long) = 0 /\ sim.pullback_adds_long = 0
    /\ sim.open_short = None =>
          Len(sim.reentry_pieces_short) = 0 /\ sim.pullback_adds_short = 0

\* A piece left open after its parent long was closed
C35_OrphanPiece ==
    /\ phase = "loop"
    /\ sim.open_long = None
    /\ Len(sim.reentry_pieces_long) > 0
    /\ sim.pullback_adds_long > 0
    /\ \E c \in 1..Len(sim.trades) :
          /\ sim.trades[c].direction = "long"
          /\ sim.trades[c].status = "closed"
          /\ sim.trades[c].exit_date = sim.bar_idx

\* A piece closed together with a position entered after the piece
C35_PieceClosedWithLaterPosition ==
    \E c \in 1..Len(sim.trades), k \in 1..Len(sim.trades) :
        /\ sim.trades[c].direction = "long"
        /\ sim.trades[c].status = "closed"
        /\ sim.trades[k].direction = "reentry"
        /\ sim.trades[k].status = "closed"
        /\ sim.trades[k].entry_signal_color = "green"
        /\ sim.trades[k].exit_date = sim.trades[c].exit_date
        /\ sim.trades[k].entry_date < sim.trades[c].entry_date

\* ---------------------------------------------------------------------------
\* C36  Records with status open in the returned ledger
\* ---------------------------------------------------------------------------

\* Positions and pieces still open after the last bar
C36_StillOpen ==
    Cardinality({slot \in {"open_long", "open_short", "bb_open_long",
                           "bb_open_short", "bb2_open_long", "bb2_open_short"} :
                    sim[slot] # None})
    + Len(sim.reentry_pieces_long) + Len(sim.reentry_pieces_short)

\* C36: in the ledger returned by simulate_trades every record with status
\* open corresponds to a position or re-entry piece still open after the last
\* bar, each with exactly one such record; hence the open_trades metric
\* equals the number of positions open at the end of the series.
C36_OpenRecordsAreOpenPositions ==
    phase = "done" /\ family \in DOMAIN Runs =>
        extract_metrics(sim.trades).open_trades = C36_StillOpen

\* A returned ledger with a record marked open although nothing is open
C36_StaleOpenRecord ==
    /\ phase = "done"
    /\ family \in DOMAIN Runs
    /\ C36_StillOpen = 0
    /\ extract_metrics(sim.trades).open_trades = 1
    /\ \E k \in 1..Len(sim.trades) :
          /\ sim.trades[k].status = "open"
          /\ sim.trades[k].direction = "reentry"

\* A returned ledger in which one open piece has two records marked open
C36_PieceCountedTwice ==
    /\ phase = "done"
    /\ family \in DOMAIN Runs
    /\ Len(sim.reentry_pieces_long) = 1
    /\ Cardinality({k \in 1..Len(sim.trades) :
          /\ sim.trades[k].status = "open"
          /\ sim.trades[k].direction = "reentry"
          /\ sim.trades[k].entry_date = sim.reentry_pieces_long[1].entry_date}) = 2

\* Where no piece was ever added the count is exact
C36_ExactWithoutPieces ==
    phase = "done" /\ family \in DOMAIN Runs
    /\ (\A k \in 1..Len(sim.trades) : sim.trades[k].direction # "reentry") =>
        extract_metrics(sim.trades).open_trades = C36_StillOpen

\* ---------------------------------------------------------------------------
\* C37  Complementary positions and the primary track
\* ---------------------------------------------------------------------------

\* Per complementary slot: the primary slot of its direction, its record
\* direction, and its hold limit and stop (tenths of a percent)
C37_Tracks ==
    { [ slot |-> "bb_open_long", primary |-> "open_long", is_long |-> TRUE,
        direction |-> "bb_long", reasons |-> {"bb_stop", "bb_expiry", "bb_target"},
        hold |-> Get(cfg, "rsi_bb_hold_days", 5),
        stop |-> Get(cfg, "rsi_bb_stop_pct", 50) ],
      [ slot |-> "bb_open_short", primary |-> "open_short", is_long |-> FALSE,
        direction |-> "bb_short", reasons |-> {"bb_stop", "bb_expiry", "bb_target"},
        hold |-> Get(cfg, "rsi_bb_hold_days", 5),
        stop |-> Get(cfg, "rsi_bb_stop_pct", 50) ],
      [ slot |-> "bb2_open_long", primary |-> "open_long", is_long |-> TRUE,
        direction |-> "bb2_long", reasons |-> {"bb2_stop", "bb2_expiry", "bb2_target"},
        hold |-> Get(cfg, "bb_improved_hold_days", 2),
        stop |-> Get(cfg, "bb_improved_stop_pct", 30) ],
      [ slot |-> "bb2_open_short", primary |-> "open_short", is_long |-> FALSE,
        direction |-> "bb2_short", reasons |-> {"bb2_stop", "bb2_expiry", "bb2_target"},
        hold |-> Get(cfg, "bb_improved_hold_days", 2),
        stop |-> Get(cfg, "bb_improved_stop_pct", 30) ] }

\* One of the position's own closing rules holds on the bar: its hold time
\* has elapsed, the oscillator is past the midline, or its loss has reached
\* the stop
C37_OwnRule(k, p, r, bar) ==
    \/ bar - p.entry_bar_index >= k.hold
    \/ r.rsi_14 # NaN /\ (IF k.is_long THEN r.rsi_14 > 50 ELSE r.rsi_14 < 50)
    \/ IF k.is_long
       THEN (p.entry_price - r.close) * 1000 >= k.stop * p.entry_price
       ELSE (r.close - p.entry_price) * 1000 >= k.stop * p.entry_price

\* The primary position in the slot changed on this bar (opened or closed)
C37_PrimaryChanged(slot) == sim'[slot] # sim[slot]

C37_Track(k) ==
    /\ sim'[k.slot] # None /\ sim'[k.slot].entry_bar_index = sim'.bar_idx
          => sim'[k.primary] = None
    /\ sim[k.slot] # None /\ sim'[k.slot] # sim[k.slot] =>
          /\ C37_OwnRule(k, sim[k.slot], row', sim'.bar_idx)
          /\ \E t \in Appended :
                /\ t.direction = k.direction
                /\ t.entry_bar_index = sim[k.slot].entry_bar_index
                /\ t.status = "closed"
                /\ Get(t, "exit_signal_reason", "none") \in k.reasons
    /\ sim[k.slot] # None
       /\ ~C37_OwnRule(k, sim[k.slot], row', sim'.bar_idx)
       /\ (C37_PrimaryChanged("open_long") \/ C37_PrimaryChanged("open_short"))
          => sim'[k.slot] = sim[k.slot]

\* C37: a complementary position (BB or BB2) is opened in a direction only on
\* a bar at whose end no primary position of that direction is open; once
\* open it is closed only by its own hold-time, midline or stop rules, never
\* by the opening or closing of a primary position.
C37_BandsApartFromPrimary ==
    [][ phase' = "loop" /\ sim'.bar_idx = sim.bar_idx + 1 =>
          \A k \in C37_Tracks : C37_Track(k) ]_vars

\* A complementary short opened earlier is still held at the end of a bar on
\* which a primary position was opened
C37_Witness ==
    /\ phase = "loop"
    /\ \E slot \in {"bb_open_short", "bb2_open_short", "bb_open_long", "bb2_open_long"},
          primary \in {"open_long", "open_short"} :
          /\ sim[slot] # None
          /\ sim[slot].entry_bar_index < sim.bar_idx
          /\ sim[primary] # None
          /\ sim[primary].entry_bar_index = sim.bar_idx

\* A complementary long opened on a bar that closed the primary long
C37_OpenedAfterCloseWitness ==
    /\ phase = "loop"
    /\ sim.open_long = None
    /\ \E slot \in {"bb_open_long", "bb2_open_long"} :
          /\ sim[slot] # None
          /\ sim[slot].entry_bar_index = sim.bar_idx
    /\ \E c \in 1..Len(sim.trades) :
          /\ sim.trades[c].direction = "long"
          /\ sim.trades[c].status = "closed"
          /\ sim.trades[c].exit_date = sim.bar_idx

\* ---------------------------------------------------------------------------
\* C38  No exposure after the circuit breaker's date
\* ---------------------------------------------------------------------------

\* The record at position i of the returned ledger of an asset was
\* force-closed by the breaker
C38_ForceClosed(cg_id, i) ==
    /\ cb.trades[cg_id][i].direction \in {"long", "short"}
    /\ Get(cb.trades[cg_id][i], "exit_signal_reason", "none") = "circuit_breaker"

\* C38: after the circuit breaker fires on date D the returned ledgers record
\* no exposure after D: no primary record has an entry date or an exit date
\* later than D, and no trim record of a force-closed position is dated
\* after D.
C38_NoExposureAfterTrip ==
    cb.phase = "done" /\ cb.tripped =>
        \A cg_id \in DOMAIN cb.trades :
            \A i \in 1..Len(cb.trades[cg_id]) :
                LET t == cb.trades[cg_id][i]
                IN  /\ t.direction \in {"long", "short"} =>
                          /\ t.entry_date <= cb.trip_date
                          /\ t.exit_date # NoneDate => t.exit_date <= cb.trip_date
                    /\ t.direction = "trim"
                       /\ (\E j \in 1..Len(cb.trades[cg_id]) :
                              /\ C38_ForceClosed(cg_id, j)
                              /\ cb.trades[cg_id][j].entry_date = t.entry_date)
                          => t.exit_date <= cb.trip_date

\* A returned ledger with a primary position entered after the trip date
C38_EntryAfterTrip ==
    /\ cb.phase = "done" /\ cb.tripped
    /\ \E cg_id \in DOMAIN cb.trades :
          \E i \in 1..Len(cb.trades[cg_id]) :
              /\ cb.trades[cg_id][i].direction \in {"long", "short"}
              /\ cb.trades[cg_id][i].entry_date > cb.trip_date
    /\ \E cg_id \in DOMAIN cb.trades :
          \E i \in 1..Len(cb.trades[cg_id]) : C38_ForceClosed(cg_id, i)

\* The positions open on the trip date are closed on it
C38_OpenOnTripDateClosed ==
    cb.phase = "done" /\ cb.tripped =>
        \A cg_id \in DOMAIN cb.trades :
            \A i \in 1..Len(cb.trades[cg_id]) :
                LET t == cb.trades[cg_id][i]
                IN  /\ t.direction \in {"long", "short"}
                    /\ t.entry_date <= cb.trip_date
                    /\ cb.dfs[cg_id][cb.trip_date] # Missing
                    => t.exit_date # NoneDate /\ t.exit_date <= cb.trip_date

\* ---------------------------------------------------------------------------
\* C39  The spot_only leverage scenario and the single pool
\* ---------------------------------------------------------------------------

\* The closes of the first asset here: a day on which the price more than
\* doubles is among them.
SpotPrices == {10000, 9400, 21000}

\* simulate_compounding_single_pool and simulate_leverage_scenario with
\* LEVERAGE_CONFIGS["spot_only"], called on the same ledgers.
InitSpot ==
    /\ series = Idle
    /\ cfg = Idle /\ sim = Idle /\ row = NoRow /\ phase = "idle"
    /\ cfgB = Idle /\ simB = Idle /\ family = "portfolio" /\ hist = InitHist
    /\ ev = Idle
    /\ cb = Idle
    /\ \E dfa \in [1..MaxDates -> SpotPrices],
          dfb \in [1..MaxDates -> {10000, 9400}],
          sa \in {"long_then_short", "trimmed_long", "short_stopped"},
          sb \in {"short_open", "late_long", "last_long"},
          quality \in {"aligned", "boundary"} :
          LET trades == [a |-> LedgerOf(sa, dfa), b |-> LedgerOf(sb, dfb)]
          IN  /\ pool = [ phase |-> "loop", input |-> trades,
                          events |-> SortEvents(CollectEvents(trades)),
                          all_trims |-> AllTrims(trades), idx |-> 1,
                          capital |-> starting_capital,
                          peak_capital |-> starting_capital,
                          max_drawdown_pct |-> Zero,
                          deployed_until |-> NoneDate, deployed_cg_id |-> "none",
                          result_trades |-> <<>>, skipped |-> 0,
                          result |-> None ]
              /\ lev = [ phase |-> "loop", input |-> trades,
                         dfs |-> [a |-> EntryRows(quality, dfa),
                                  b |-> EntryRows("aligned", dfb)],
                         leverage_config |-> LEVERAGE_CONFIGS.spot_only,
                         signal_config |-> IMPROVED_CONFIG,
                         events |-> SortEvents(CollectEvents(trades)),
                         all_trims |-> AllTrims(trades), idx |-> 1,
                         capital |-> starting_capital,
                         peak_capital |-> starting_capital,
                         max_drawdown_pct |-> Zero,
                         deployed_until |-> NoneDate,
                         result_trades |-> <<>>, skipped |-> 0,
                         liquidations |-> 0,
                         tier_counts |-> [A |-> 0, B |-> 0, C |-> 0],
                         result |-> None ]

\* The two calls proceed independently of each other.
NextSpot == PoolEvent \/ PoolReturn \/ LevEvent \/ LevReturn

SpecSpot == InitSpot /\ [][NextSpot]_vars

\* Both calls have walked the same number of events
C39_InStep ==
    /\ pool.phase \in {"loop", "done"} /\ lev.phase \in {"loop", "done"}
    /\ pool.idx = lev.idx

\* The same trades executed in the same order with the same capital before
\* and the same dollar result, the same number skipped, the same capital now
C39_SameRun ==
    /\ pool.capital = lev.capital
    /\ pool.skipped = lev.skipped
    /\ Len(pool.result_trades) = Len(lev.result_trades)
    /\ \A i \in 1..Len(pool.result_trades) :
          i <= Len(lev.result_trades) =>
              /\ pool.result_trades[i].direction = lev.result_trades[i].direction
              /\ pool.result_trades[i].entry_date = lev.result_trades[i].entry_date
              /\ pool.result_trades[i].entry_price = lev.result_trades[i].entry_price
              /\ pool.result_trades[i].capital_before = lev.result_trades[i].capital_before
              /\ pool.result_trades[i].position_size = lev.result_trades[i].position_size
              /\ pool.result_trades[i].pnl_usd_compound
                   = lev.result_trades[i].pnl_usd_leveraged

C39_SameReturn ==
    pool.phase = "done" /\ lev.phase = "done" =>
        /\ pool.result.final_capital = lev.result.final_capital
        /\ pool.result.skipped_trades = lev.result.skipped_trades
        /\ Len(pool.result.trades) = Len(lev.result.trades)

\* C39: with every tier's leverage 1.0 (spot_only), simulate_leverage_scenario
\* is equivalent to simulate_compounding_single_pool on the same ledgers: the
\* same trades executed and skipped in the same order, the same capital after
\* every trade and the same final capital.
C39_SpotEqualsSinglePool ==
    C39_InStep => C39_SameRun /\ C39_SameReturn

\* Both calls have returned, the single pool with a negative final capital and
\* the spot_only scenario with none
C39_CapitalsDiffer ==
    /\ pool.phase = "done" /\ lev.phase = "done"
    /\ pool.result.final_capital < 0
    /\ lev.result.final_capital = 0
    /\ lev.result.liquidations = 1
    /\ Len(pool.result.trades) = Len(lev.result.trades)

\* No event walked so far lost the whole of its remaining position
C39_NoWipeout ==
    \A i \in 1..Len(pool.events) :
        i < pool.idx =>
            pool.events[i].pnl_pct * pool.events[i].remaining_pct > -10000000

\* On ledgers without such a loss the two calls agree
C39_EqualWithoutWipeout ==
    C39_InStep /\ C39_NoWipeout => C39_SameRun /\ C39_SameReturn

====
